---- MODULE Spec2Model ----
(***************************************************************************)
(* Code Red tracker: the HTTP route handlers (registerRoutes) on top of    *)
(* the two IStorage implementations, MemStorage and DatabaseStorage.       *)
(* A third `storage`, an object literal over the tables codeRed and        *)
(* locations, is modelled for the lookup of one incident (SpecWired) and   *)
(* for the location routes (SpecLocationsWired).                           *)
(*                                                                         *)
(* One action is one route handler together with the storage call it       *)
(* makes.  MemStorage methods contain no await, so a handler on the        *)
(* in-memory backend is one step.  A DatabaseStorage method is one step    *)
(* per SQL statement it awaits: deleteCodeRedEvent and                     *)
(* updateCodeRedLocation issue two statements and other calls may run      *)
(* between them.                                                           *)
(*                                                                         *)
(* JSON numbers are records [int, half]: Whole(n) is n, Half(n) is n+0.5,  *)
(* so that zod's z.number() (which is not z.number().int()) can be given   *)
(* a non-integer.  Instants are integers read from the clock `now`.        *)
(* Pack columns no property reads (ffp, cryo, platelets, the two runner    *)
(* arrival estimates, which no route writes) are left out of the records.  *)
(***************************************************************************)
EXTENDS Integers, Sequences, FiniteSets, TLC

VARIABLES backend,          \* what `storage` is: "mem", "db" (the two classes) or "object"
          codeRedEvents,    \* id -> CodeRedEvent
          packs,            \* id -> Pack
          currentCodeRedId, \* next incident id (counter / serial)
          currentPackId,    \* next pack id (counter / serial)
          userLocations,    \* row id -> UserLocation (MemStorage keeps one row per userId)
          currentLocationId,\* next location row id (counter / serial)
          client,           \* one browser: its polled packs and the action it is carrying out
          stopped,          \* the ids of the deleteCodeRedEvent calls that failed at the second statement
          arrival,          \* one ArrivalEstimate component: props, state, timer, requests in flight
          tracking,         \* one useLocationTracking hook: state, refs, timer closure, pushes
          now,              \* the clock, new Date()
          calls,            \* number of requests issued so far
          inflight,         \* call id -> DatabaseStorage call between two statements
          last              \* the request that completed last, with its response

vars == <<backend, codeRedEvents, packs, currentCodeRedId, currentPackId,
          userLocations, currentLocationId, client, stopped, arrival, tracking,
          now, calls, inflight, last>>

store == <<codeRedEvents, packs>>

----------------------------------------------------------------------------
(* Bounds of the model *)

MaxIds == 2
MaxClock == 1
MaxCalls == 3

----------------------------------------------------------------------------
(* Values *)

(* a browser that has polled nothing and carries out no action *)
NoAction == [event |-> 0, packs |-> <<>>, action |-> "none", todo |-> {}, packId |-> 0,
             failed |-> FALSE, outcome |-> "none"]

NULL == -1

(* an ArrivalEstimate component before its first render: useState(null),
   useState(false), no timer, no request in flight.  A location that may be
   null is a sequence of at most one location *)
Unmounted == [mounted |-> FALSE,
              props |-> [runnerUserId |-> "", stage |-> 1, labLocation |-> <<>>,
                         clinicalLocation |-> <<>>],
              targetLocation |-> <<>>, estimateType |-> "null",
              estimate |-> NULL, isCalculating |-> FALSE,
              interval |-> <<>>, pending |-> {}, asked |-> 0]

(* a useLocationTracking hook before its effect ran: useState(null),
   useState(false), useRef(null).  updateIntervalRef holds the `location` the
   timer's callback closed over; `event` is the callback that ran last and
   `pushed` the positions it sent to POST /api/location/update *)
NotTracking == [enabled |-> FALSE, isTracking |-> FALSE, location |-> <<>>,
                watchIdRef |-> FALSE, updateIntervalRef |-> <<>>, initial |-> FALSE,
                event |-> "none", pushed |-> <<>>]

NoUser == "null"

Whole(n) == [int |-> n, half |-> FALSE]

Half(n) == [int |-> n, half |-> TRUE]

NumGe(x, k) == x.int >= k

NumLe(x, k) == x.int < k \/ (x.int = k /\ ~x.half)

IsInteger(x) == ~x.half

Ids == 1..MaxIds

Locations == {"ED", "ICU"}

LocationInputs == Locations \cup {""}

UserIds == {"r1", "r2"}

UserTypes == {"runner", "clinician"}

LabTypes == {"Main Lab", "Satellite Lab"}

StageInputs == {Whole(s) : s \in 0..7} \cup {Half(2)}

MinuteInputs == {Whole(0), Whole(1), Whole(120), Whole(121)}

Restrict(f, S) == [k \in S |-> f[k]]

Overlay(f, g) == [k \in DOMAIN f \cup DOMAIN g |-> IF k \in DOMAIN g THEN g[k] ELSE f[k]]

----------------------------------------------------------------------------
(* shared/schema.ts *)

SlotOf == <<"orderReceivedTime", "readyForCollectionTime", "runnerEnRouteToLabTime",
            "orderCollectedTime", "runnerEnRouteToClinicalTime", "productArrivedTime">>

PackColumns == {"id", "codeRedEventId", "name", "composition", "currentStage",
                "estimatedReadyTime"} \cup {SlotOf[k] : k \in 1..6}

PackDefaults == [k \in {"currentStage", "estimatedReadyTime"} \cup {SlotOf[s] : s \in 1..6} |->
                   IF k = "currentStage" THEN Whole(1) ELSE NULL]

insertPackOmitMutant == {"id"}

insertPackOmit == {"id", "currentStage", "estimatedReadyTime"} \cup {SlotOf[k] : k \in 1..6}

insertPackRequired == {"codeRedEventId", "name", "composition"}

insertPackValid(body) == insertPackRequired \subseteq DOMAIN body

insertPackSchema(body) == Restrict(body, (DOMAIN body \cap PackColumns) \ insertPackOmit)

updatePackStageValidMutant(body) == NumGe(body.stage, 1) /\ NumLe(body.stage, 7)

updatePackStageValid(body) == NumGe(body.stage, 1) /\ NumLe(body.stage, 6)

updatePackEstimateValidFromZero(body) ==
    body.estimatedMinutes = <<>> \/
    (NumGe(body.estimatedMinutes[1], 0) /\ NumLe(body.estimatedMinutes[1], 120))

updatePackEstimateValid(body) ==
    body.estimatedMinutes = <<>> \/
    (NumGe(body.estimatedMinutes[1], 1) /\ NumLe(body.estimatedMinutes[1], 120))

updateCodeRedLocationValid(body) == body.newLocation # ""

----------------------------------------------------------------------------
(* server/storage.ts: MemStorage and DatabaseStorage, the record each method writes *)

PackIdsOf(eventId) == {p \in DOMAIN packs : packs[p].codeRedEventId = eventId}

Mem_createCodeRedEvent(insertEvent, id) ==
    [id |-> id,
     activationTime |-> insertEvent.activationTime,
     labType |-> insertEvent.labType,
     location |-> insertEvent.location,
     patientMRN |-> insertEvent.patientMRN,
     originalLocation |-> insertEvent.location,
     locationHistory |-> <<>>,
     assignedRunnerId |-> NoUser,
     assignedClinicianId |-> NoUser,
     isActive |-> TRUE,
     deactivationTime |-> NULL]

Db_createCodeRedEvent(insertEvent, id) ==
    Overlay([id |-> id, assignedRunnerId |-> NoUser, assignedClinicianId |-> NoUser,
             isActive |-> TRUE, deactivationTime |-> NULL],
            Overlay(insertEvent,
                    [originalLocation |-> insertEvent.location, locationHistory |-> <<>>]))

(* The object literal exported as `storage`: its table `codeRed` has the columns
   active and completedTime; a row is inserted active *)
Storage_createCodeRedEvent(event, id) ==
    Overlay([id |-> id, active |-> TRUE, completedTime |-> NULL], event)

Storage_deactivateCodeRedEvent(event, t) ==
    [event EXCEPT !.active = FALSE, !.completedTime = t]

deactivateCodeRedEventOnce(event, t) ==
    IF event.isActive THEN [event EXCEPT !.isActive = FALSE, !.deactivationTime = t] ELSE event

deactivateCodeRedEvent(event, t) ==
    [event EXCEPT !.isActive = FALSE, !.deactivationTime = t]

(* the rows a write by id reaches: `this.codeRedEvents.get(id)` and
   `.where(eq(codeRedEvents.id, id))` *)
WhereIdMutant(id) == DOMAIN codeRedEvents

WhereId(id) == {e \in DOMAIN codeRedEvents : e = id}

assignUserToCodeRedClearsOther(event, userId, userType) ==
    [event EXCEPT !.assignedRunnerId = IF userType = "runner" THEN userId ELSE NoUser,
                  !.assignedClinicianId = IF userType = "clinician" THEN userId ELSE NoUser]

assignUserToCodeRed(event, userId, userType) ==
    [event EXCEPT !.assignedRunnerId = IF userType = "runner" THEN userId ELSE @,
                  !.assignedClinicianId = IF userType = "clinician" THEN userId ELSE @]

updateCodeRedEventLab(event, labType) == [event EXCEPT !.labType = labType]

LocationUpdate(timestamp, from, to) == <<timestamp, from, to>>

updateCodeRedLocationMovesOrigin(event, timestamp, newLocation) ==
    [event EXCEPT !.location = newLocation,
                  !.originalLocation = newLocation,
                  !.locationHistory = Append(@, LocationUpdate(timestamp, event.location, newLocation))]

updateCodeRedLocationMutant(event, timestamp, newLocation) ==
    [event EXCEPT !.location = newLocation,
                  !.locationHistory = Append(@, LocationUpdate(timestamp, newLocation, newLocation))]

updateCodeRedLocation(event, timestamp, newLocation) ==
    [event EXCEPT !.location = newLocation,
                  !.locationHistory = Append(@, LocationUpdate(timestamp, event.location, newLocation))]

packsToDeleteMutant(id) == {}

packsToDelete(id) == PackIdsOf(id)

Mem_createPack(insertPack, id, t) ==
    [id |-> id,
     codeRedEventId |-> insertPack.codeRedEventId,
     name |-> insertPack.name,
     composition |-> insertPack.composition,
     currentStage |-> Whole(1),
     estimatedReadyTime |-> NULL,
     orderReceivedTime |-> t,
     readyForCollectionTime |-> NULL,
     runnerEnRouteToLabTime |-> NULL,
     orderCollectedTime |-> NULL,
     runnerEnRouteToClinicalTime |-> NULL,
     productArrivedTime |-> NULL]

Db_createPack(insertPack, id, t) ==
    Overlay(Overlay(PackDefaults, Overlay(insertPack, [currentStage |-> Whole(1), orderReceivedTime |-> t])),
            [id |-> id])

StageColumnsMutant(stage, t) ==
    [k \in {"currentStage"} |-> stage]

StageColumns(stage, t) ==
    [k \in {"currentStage"} \cup {SlotOf[s] : s \in {s \in 1..6 : Whole(s) = stage}} |->
        IF k = "currentStage" THEN stage ELSE t]

updatePackStageClearsLater(pack, stage, t) ==
    [k \in DOMAIN pack |->
        IF k \in DOMAIN StageColumns(stage, t) THEN StageColumns(stage, t)[k]
        ELSE IF \E s \in 1..6 : k = SlotOf[s] /\ stage.int < s THEN NULL
        ELSE pack[k]]

(* a write that keeps the higher of the stored and the requested stage *)
updatePackStageKeepsHighest(pack, stage, t) ==
    IF NumGe(stage, pack.currentStage.int) THEN Overlay(pack, StageColumns(stage, t)) ELSE pack

updatePackStage(pack, stage, t) == Overlay(pack, StageColumns(stage, t))

EstimatedReadyTime(estimatedMinutes, t) ==
    IF estimatedMinutes = <<>> THEN NULL ELSE t + estimatedMinutes[1].int

updatePackEstimateRestartsStage(pack, estimatedMinutes, t) ==
    [pack EXCEPT !.estimatedReadyTime = EstimatedReadyTime(estimatedMinutes, t),
                 !.currentStage = Whole(1)]

updatePackEstimate(pack, estimatedMinutes, t) ==
    [pack EXCEPT !.estimatedReadyTime = EstimatedReadyTime(estimatedMinutes, t)]

(* the reads *)

IdsAsc(S) == CHOOSE s \in [1..Cardinality(S) -> S] :
                 \A i, j \in 1..Cardinality(S) : i < j => s[i] < s[j]

getPacksByCodeRedEventId(eventId) ==
    [i \in 1..Cardinality(PackIdsOf(eventId)) |-> packs[IdsAsc(PackIdsOf(eventId))[i]]]

getPackById(id) == IF id \in DOMAIN packs THEN <<packs[id]>> ELSE <<>>

WithPacks(event) == Overlay(event, [packs |-> getPacksByCodeRedEventId(event.id)])

getCodeRedEventById(id) ==
    IF id \in DOMAIN codeRedEvents /\ codeRedEvents[id].isActive
    THEN <<WithPacks(codeRedEvents[id])>> ELSE <<>>

Storage_getCodeRedEventById(id) ==
    IF id \in DOMAIN codeRedEvents THEN <<codeRedEvents[id]>> ELSE <<>>

ActiveIds == {e \in DOMAIN codeRedEvents : codeRedEvents[e].isActive}

getActiveCodeRedEvents ==
    [i \in 1..Cardinality(ActiveIds) |-> WithPacks(codeRedEvents[IdsAsc(ActiveIds)[i]])]

(* the listing oldest first *)
AuditOrderOldestFirst == CHOOSE s \in [1..Cardinality(DOMAIN codeRedEvents) -> DOMAIN codeRedEvents] :
                             /\ \A i, j \in DOMAIN s : i # j => s[i] # s[j]
                             /\ \A i, j \in DOMAIN s : i < j =>
                                   \/ codeRedEvents[s[i]].activationTime < codeRedEvents[s[j]].activationTime
                                   \/ /\ codeRedEvents[s[i]].activationTime = codeRedEvents[s[j]].activationTime
                                      /\ s[i] < s[j]

AuditOrder == CHOOSE s \in [1..Cardinality(DOMAIN codeRedEvents) -> DOMAIN codeRedEvents] :
                  /\ \A i, j \in DOMAIN s : i # j => s[i] # s[j]
                  /\ \A i, j \in DOMAIN s : i < j =>
                        \/ codeRedEvents[s[i]].activationTime > codeRedEvents[s[j]].activationTime
                        \/ /\ codeRedEvents[s[i]].activationTime = codeRedEvents[s[j]].activationTime
                           /\ IF backend = "mem" THEN s[i] < s[j] ELSE s[i] > s[j]

getAllCodeRedEventsForAudit ==
    [i \in 1..Cardinality(DOMAIN codeRedEvents) |-> WithPacks(codeRedEvents[AuditOrder[i]])]

----------------------------------------------------------------------------
(* server/routes.ts: one action per handler, with the storage call it awaits *)

Remove(f, S) == Restrict(f, DOMAIN f \ S)

Response(call, op, arg, status, res) ==
    [call |-> call, op |-> op, arg |-> arg, status |-> status, res |-> res]

Idle == DOMAIN inflight = {}

(* a handler that completes in the step that starts it *)
Complete(op, arg, status, res) ==
    /\ calls' = calls + 1
    /\ last' = Response(calls + 1, op, arg, status, res)
    /\ UNCHANGED <<backend, client, stopped, arrival, tracking, userLocations, currentLocationId, now, inflight>>

(* a DatabaseStorage call that has run its first statement and awaits the second *)
Suspend(op, arg, local) ==
    /\ calls' = calls + 1
    /\ inflight' = Overlay(inflight, [c \in {calls + 1} |-> [op |-> op, arg |-> arg, local |-> local]])
    /\ UNCHANGED <<backend, client, stopped, arrival, tracking, userLocations, currentLocationId, now, last>>

(* the second statement of call c has run *)
Resume(c, status, res) ==
    /\ inflight' = Remove(inflight, {c})
    /\ last' = Response(c, inflight[c].op, inflight[c].arg, status, res)
    /\ UNCHANGED <<backend, client, stopped, arrival, tracking, userLocations, currentLocationId, now, calls>>

Tick ==
    /\ now < MaxClock
    /\ now' = now + 1
    /\ UNCHANGED <<backend, client, stopped, arrival, tracking, codeRedEvents, packs, currentCodeRedId, currentPackId,
                   userLocations, currentLocationId, calls, inflight, last>>

(* a check of the location alone *)
createCodeRedValidLocationOnly(body) == body.location # ""

(* !activationTime || !labType || !location || !patientMRN: an empty string
   and a missing field are both falsy; NULL is a missing activationTime *)
createCodeRedValid(body) ==
    body.activationTime # NULL /\ body.labType # "" /\ body.location # "" /\ body.patientMRN # ""

(* POST /api/code-red *)
PostCodeRed(body) ==
    /\ calls < MaxCalls
    /\ IF ~createCodeRedValid(body)
       THEN /\ Complete("createCodeRedEvent", body, 400, <<>>)
            /\ UNCHANGED <<codeRedEvents, packs, currentCodeRedId, currentPackId>>
       ELSE /\ currentCodeRedId <= MaxIds
            /\ LET event == CASE backend = "mem" -> Mem_createCodeRedEvent(body, currentCodeRedId)
                              [] backend = "db" -> Db_createCodeRedEvent(body, currentCodeRedId)
                              [] OTHER -> Storage_createCodeRedEvent(body, currentCodeRedId)
               IN /\ codeRedEvents' = Overlay(codeRedEvents, [e \in {currentCodeRedId} |-> event])
                  /\ Complete("createCodeRedEvent", body, 200, <<event>>)
            /\ currentCodeRedId' = currentCodeRedId + 1
            /\ UNCHANGED <<packs, currentPackId>>

(* deactivation that cascades to the packs, as deletion does *)
PostDeactivateCascades(id) ==
    /\ calls < MaxCalls
    /\ codeRedEvents' = [e \in DOMAIN codeRedEvents |->
                            IF e # id THEN codeRedEvents[e]
                            ELSE deactivateCodeRedEvent(codeRedEvents[e], now)]
    /\ packs' = Remove(packs, packsToDelete(id))
    /\ Complete("deactivateCodeRedEvent", [id |-> id], 200, <<>>)
    /\ UNCHANGED <<currentCodeRedId, currentPackId>>

(* POST /api/code-red/:id/deactivate *)
PostDeactivate(id) ==
    /\ calls < MaxCalls
    /\ codeRedEvents' = [e \in DOMAIN codeRedEvents |->
                            IF e \notin WhereId(id) THEN codeRedEvents[e]
                            ELSE IF backend = "object"
                            THEN Storage_deactivateCodeRedEvent(codeRedEvents[e], now)
                            ELSE deactivateCodeRedEvent(codeRedEvents[e], now)]
    /\ Complete("deactivateCodeRedEvent", [id |-> id], 200, <<>>)
    /\ UNCHANGED <<packs, currentCodeRedId, currentPackId>>

(* POST /api/code-red/:id/assign: the handler awaits assignUserToCodeRed and
   then getCodeRedEventById, whose result it answers with.  MemStorage runs both
   in one step; DatabaseStorage runs the UPDATE here, the SELECT of the incident
   in SelectCodeRedEvent and the SELECT of its packs in SelectPacks *)
PostAssign(req) ==
    /\ calls < MaxCalls
    /\ UNCHANGED <<packs, currentCodeRedId, currentPackId>>
    /\ IF req.userId = "" \/ req.userType \notin UserTypes
       THEN /\ Complete("assignUserToCodeRed", req, 400, <<>>)
            /\ UNCHANGED codeRedEvents
       ELSE /\ codeRedEvents' = [e \in DOMAIN codeRedEvents |->
                                    IF e \in WhereId(req.id)
                                    THEN assignUserToCodeRed(codeRedEvents[e], req.userId, req.userType)
                                    ELSE codeRedEvents[e]]
            /\ IF backend = "mem"
               THEN Complete("assignUserToCodeRed", req, 200, getCodeRedEventById(req.id)')
               ELSE Suspend("assignUserToCodeRed", req, <<>>)

(* GET /api/code-red/:id *)
GetCodeRed(id) ==
    /\ calls < MaxCalls
    /\ UNCHANGED <<codeRedEvents, packs, currentCodeRedId, currentPackId>>
    /\ IF backend = "object"
       THEN Complete("getCodeRedEventById", [id |-> id],
                     IF Storage_getCodeRedEventById(id) = <<>> THEN 404 ELSE 200,
                     Storage_getCodeRedEventById(id))
       ELSE IF getCodeRedEventById(id) = <<>>
       THEN Complete("getCodeRedEventById", [id |-> id], 404, <<>>)
       ELSE IF backend = "mem"
       THEN Complete("getCodeRedEventById", [id |-> id], 200, getCodeRedEventById(id))
       ELSE Suspend("getCodeRedEventById", [id |-> id], <<codeRedEvents[id]>>)

(* DatabaseStorage.getCodeRedEventById, first statement, after the UPDATE of
   assignUserToCodeRed: no active row answers null *)
SelectCodeRedEvent(c) ==
    /\ c \in DOMAIN inflight
    /\ inflight[c].op = "assignUserToCodeRed"
    /\ inflight[c].local = <<>>
    /\ UNCHANGED <<codeRedEvents, packs, currentCodeRedId, currentPackId>>
    /\ IF inflight[c].arg.id \in ActiveIds
       THEN /\ inflight' = [inflight EXCEPT ![c].local = <<codeRedEvents[inflight[c].arg.id]>>]
            /\ UNCHANGED <<backend, client, stopped, arrival, tracking, userLocations, currentLocationId, now, calls, last>>
       ELSE Resume(c, 200, <<>>)

(* DatabaseStorage.getCodeRedEventById, second statement *)
SelectPacks(c) ==
    /\ c \in DOMAIN inflight
    /\ inflight[c].op \in {"assignUserToCodeRed", "getCodeRedEventById"}
    /\ inflight[c].local # <<>>
    /\ UNCHANGED <<codeRedEvents, packs, currentCodeRedId, currentPackId>>
    /\ Resume(c, 200, <<WithPacks(inflight[c].local[1])>>)

(* PATCH /api/code-red/:id/lab *)
PatchLab(req) ==
    /\ calls < MaxCalls
    /\ codeRedEvents' = [e \in DOMAIN codeRedEvents |->
                            IF e \in WhereId(req.id) THEN updateCodeRedEventLab(codeRedEvents[e], req.labType)
                            ELSE codeRedEvents[e]]
    /\ Complete("updateCodeRedEventLab", req, 200, <<>>)
    /\ UNCHANGED <<packs, currentCodeRedId, currentPackId>>

(* DELETE /api/code-red/:id: MemStorage removes the incident and its packs in one
   step; DatabaseStorage runs DELETE FROM packs here and DELETE FROM
   code_red_events in DeleteCodeRedEvent *)
DeleteCodeRed(id) ==
    /\ calls < MaxCalls
    /\ packs' = Remove(packs, packsToDelete(id))
    /\ IF backend = "mem"
       THEN /\ codeRedEvents' = Remove(codeRedEvents, {id})
            /\ Complete("deleteCodeRedEvent", [id |-> id], 200, <<>>)
       ELSE /\ Suspend("deleteCodeRedEvent", [id |-> id], <<>>)
            /\ UNCHANGED codeRedEvents
    /\ UNCHANGED <<currentCodeRedId, currentPackId>>

(* a second statement that reports an incident it does not find *)
DeleteCodeRedEventStrict(c) ==
    /\ c \in DOMAIN inflight
    /\ inflight[c].op = "deleteCodeRedEvent"
    /\ codeRedEvents' = Remove(codeRedEvents, {inflight[c].arg.id})
    /\ Resume(c, IF inflight[c].arg.id \in DOMAIN codeRedEvents THEN 200 ELSE 500, <<>>)
    /\ UNCHANGED <<packs, currentCodeRedId, currentPackId>>

DeleteCodeRedEvent(c) ==
    /\ c \in DOMAIN inflight
    /\ inflight[c].op = "deleteCodeRedEvent"
    /\ codeRedEvents' = Remove(codeRedEvents, {inflight[c].arg.id})
    /\ Resume(c, 200, <<>>)
    /\ UNCHANGED <<packs, currentCodeRedId, currentPackId>>

(* DatabaseStorage.deleteCodeRedEvent: the DELETE FROM code_red_events rejects
   (the connection is lost); the packs are gone, the incident stays, the
   handler's catch answers 500 *)
DeleteCodeRedEventFails(c) ==
    /\ c \in DOMAIN inflight
    /\ inflight[c].op = "deleteCodeRedEvent"
    /\ stopped' = Append(stopped, inflight[c].arg.id)
    /\ inflight' = Remove(inflight, {c})
    /\ last' = Response(c, "deleteCodeRedEvent", inflight[c].arg, 500, <<>>)
    /\ UNCHANGED <<backend, client, arrival, tracking, userLocations, currentLocationId, now, calls,
                   codeRedEvents, packs, currentCodeRedId, currentPackId>>

(* updateCodeRedLocation found no incident: it returns without an error, as
   assignUserToCodeRed does *)
updateCodeRedLocationNotFoundMutant(body) ==
    /\ Complete("updateCodeRedLocation", body, 200, <<>>)
    /\ UNCHANGED codeRedEvents

(* updateCodeRedLocation found no incident: it throws `Code Red event ... not
   found` before it writes, and the handler's catch answers 500 *)
updateCodeRedLocationNotFound(body) ==
    /\ Complete("updateCodeRedLocation", body, 500, <<>>)
    /\ UNCHANGED codeRedEvents

(* PATCH /api/code-red/location: MemStorage reads and writes in one step;
   DatabaseStorage runs the SELECT here and the UPDATE in UpdateCodeRedLocation *)
PatchLocation(body) ==
    /\ calls < MaxCalls
    /\ UNCHANGED <<packs, currentCodeRedId, currentPackId>>
    /\ IF ~updateCodeRedLocationValid(body)
       THEN /\ Complete("updateCodeRedLocation", body, 400, <<>>)
            /\ UNCHANGED codeRedEvents
       ELSE IF body.codeRedId \notin DOMAIN codeRedEvents
       THEN updateCodeRedLocationNotFound(body)
       ELSE IF backend = "mem"
       THEN LET updatedEvent == updateCodeRedLocation(codeRedEvents[body.codeRedId], now, body.newLocation)
            IN /\ codeRedEvents' = [codeRedEvents EXCEPT ![body.codeRedId] = updatedEvent]
               /\ Complete("updateCodeRedLocation", body, 200, <<updatedEvent>>)
       ELSE /\ Suspend("updateCodeRedLocation", body,
                       [event |-> codeRedEvents[body.codeRedId], readAt |-> now])
            /\ UNCHANGED codeRedEvents

(* an UPDATE that writes back the whole row of the earlier SELECT *)
UpdateCodeRedLocationWritesRow(c) ==
    /\ c \in DOMAIN inflight
    /\ inflight[c].op = "updateCodeRedLocation"
    /\ UNCHANGED <<packs, currentCodeRedId, currentPackId>>
    /\ LET body == inflight[c].arg
           event == inflight[c].local.event
       IN \E timestamp \in inflight[c].local.readAt..now :
            IF body.codeRedId \notin DOMAIN codeRedEvents
            THEN /\ Resume(c, 200, <<>>)
                 /\ UNCHANGED codeRedEvents
            ELSE LET updatedEvent == updateCodeRedLocation(event, timestamp, body.newLocation)
                 IN /\ codeRedEvents' = [codeRedEvents EXCEPT ![body.codeRedId] = updatedEvent]
                    /\ Resume(c, 200, <<updatedEvent>>)

(* an UPDATE that appends its entry to the history the row holds when it
   runs, with the from-location of the earlier SELECT *)
UpdateCodeRedLocationAppends(c) ==
    /\ c \in DOMAIN inflight
    /\ inflight[c].op = "updateCodeRedLocation"
    /\ UNCHANGED <<packs, currentCodeRedId, currentPackId>>
    /\ LET body == inflight[c].arg
           event == inflight[c].local.event
       IN \E timestamp \in inflight[c].local.readAt..now :
            IF body.codeRedId \notin DOMAIN codeRedEvents
            THEN /\ Resume(c, 200, <<>>)
                 /\ UNCHANGED codeRedEvents
            ELSE LET updatedEvent == [codeRedEvents[body.codeRedId] EXCEPT
                                        !.location = body.newLocation,
                                        !.locationHistory =
                                            Append(@, LocationUpdate(timestamp, event.location,
                                                                     body.newLocation))]
                 IN /\ codeRedEvents' = [codeRedEvents EXCEPT ![body.codeRedId] = updatedEvent]
                    /\ Resume(c, 200, <<updatedEvent>>)

UpdateCodeRedLocation(c) ==
    /\ c \in DOMAIN inflight
    /\ inflight[c].op = "updateCodeRedLocation"
    /\ UNCHANGED <<packs, currentCodeRedId, currentPackId>>
    /\ LET body == inflight[c].arg
           event == inflight[c].local.event
       IN \E timestamp \in inflight[c].local.readAt..now :
            IF body.codeRedId \notin DOMAIN codeRedEvents
            THEN /\ Resume(c, 200, <<>>)
                 /\ UNCHANGED codeRedEvents
            ELSE LET written == updateCodeRedLocation(event, timestamp, body.newLocation)
                     updatedEvent == [codeRedEvents[body.codeRedId] EXCEPT
                                        !.location = written.location,
                                        !.locationHistory = written.locationHistory]
                 IN /\ codeRedEvents' = [codeRedEvents EXCEPT ![body.codeRedId] = updatedEvent]
                    /\ Resume(c, 200, <<updatedEvent>>)

(* POST /api/packs *)
PostPack(body) ==
    /\ calls < MaxCalls
    /\ UNCHANGED <<codeRedEvents, currentCodeRedId>>
    /\ IF ~insertPackValid(body)
       THEN /\ Complete("createPack", body, 400, <<>>)
            /\ UNCHANGED <<packs, currentPackId>>
       ELSE /\ currentPackId <= MaxIds
            /\ LET pack == IF backend = "mem"
                           THEN Mem_createPack(insertPackSchema(body), currentPackId, now)
                           ELSE Db_createPack(insertPackSchema(body), currentPackId, now)
               IN /\ packs' = Overlay(packs, [p \in {currentPackId} |-> pack])
                  /\ Complete("createPack", body, 200, <<pack>>)
            /\ currentPackId' = currentPackId + 1

(* PATCH /api/packs/stage: MemStorage throws for a missing pack; DatabaseStorage
   updates zero rows and returns undefined; the integer column current_stage
   rejects a non-integer *)
PatchStage(body) ==
    /\ calls < MaxCalls
    /\ UNCHANGED <<codeRedEvents, currentCodeRedId, currentPackId>>
    /\ IF ~updatePackStageValid(body)
       THEN /\ Complete("updatePackStage", body, 400, <<>>)
            /\ UNCHANGED packs
       ELSE IF backend = "mem" /\ body.packId \notin DOMAIN packs
       THEN /\ Complete("updatePackStage", body, 500, <<>>)
            /\ UNCHANGED packs
       ELSE IF backend = "db" /\ ~IsInteger(body.stage)
       THEN /\ Complete("updatePackStage", body, 500, <<>>)
            /\ UNCHANGED packs
       ELSE IF body.packId \notin DOMAIN packs
       THEN /\ Complete("updatePackStage", body, 200, <<>>)
            /\ UNCHANGED packs
       ELSE LET updatedPack == updatePackStage(packs[body.packId], body.stage, now)
            IN /\ packs' = [packs EXCEPT ![body.packId] = updatedPack]
               /\ Complete("updatePackStage", body, 200, <<updatedPack>>)

(* PATCH /api/packs/estimate *)
PatchEstimate(body) ==
    /\ calls < MaxCalls
    /\ UNCHANGED <<codeRedEvents, currentCodeRedId, currentPackId>>
    /\ IF ~updatePackEstimateValid(body)
       THEN /\ Complete("updatePackEstimate", body, 400, <<>>)
            /\ UNCHANGED packs
       ELSE IF backend = "mem" /\ body.packId \notin DOMAIN packs
       THEN /\ Complete("updatePackEstimate", body, 500, <<>>)
            /\ UNCHANGED packs
       ELSE IF body.packId \notin DOMAIN packs
       THEN /\ Complete("updatePackEstimate", body, 200, <<>>)
            /\ UNCHANGED packs
       ELSE LET updatedPack == updatePackEstimate(packs[body.packId], body.estimatedMinutes, now)
            IN /\ packs' = [packs EXCEPT ![body.packId] = updatedPack]
               /\ Complete("updatePackEstimate", body, 200, <<updatedPack>>)

(* a deletion that gives the highest id back to the counter *)
DeletePackReleasesId(id) ==
    /\ calls < MaxCalls
    /\ packs' = Remove(packs, {id})
    /\ currentPackId' = IF id \in DOMAIN packs /\ id = currentPackId - 1 THEN id ELSE currentPackId
    /\ Complete("deletePack", [id |-> id], 200, <<>>)
    /\ UNCHANGED <<codeRedEvents, currentCodeRedId>>

(* DELETE /api/packs/:id *)
DeletePack(id) ==
    /\ calls < MaxCalls
    /\ packs' = Remove(packs, {id})
    /\ Complete("deletePack", [id |-> id], 200, <<>>)
    /\ UNCHANGED <<codeRedEvents, currentCodeRedId, currentPackId>>

(* orderBy(codeRedEvents.activationTime): ascending, rows of equal
   activationTime in any order *)
AscendingOrders ==
    {s \in [1..Cardinality(DOMAIN codeRedEvents) -> DOMAIN codeRedEvents] :
        /\ \A i, j \in DOMAIN s : i # j => s[i] # s[j]
        /\ \A i, j \in DOMAIN s : i < j =>
              codeRedEvents[s[i]].activationTime <= codeRedEvents[s[j]].activationTime}

Reverse(s) == [i \in 1..Len(s) |-> s[Len(s) + 1 - i]]

(* GET /api/code-red/audit/all.  MemStorage answers in one step;
   DatabaseStorage selects the incidents here and the packs of each incident
   in a statement of its own (SelectAuditPacks) *)
GetAudit ==
    /\ calls < MaxCalls
    /\ UNCHANGED <<codeRedEvents, packs, currentCodeRedId, currentPackId>>
    /\ IF backend = "mem"
       THEN Complete("getAllCodeRedEventsForAudit", <<>>, 200, <<getAllCodeRedEventsForAudit>>)
       ELSE \E s \in AscendingOrders :
               IF DOMAIN s = {}
               THEN Complete("getAllCodeRedEventsForAudit", <<>>, 200, << <<>> >>)
               ELSE Suspend("getAllCodeRedEventsForAudit", <<>>,
                            [events |-> [i \in DOMAIN s |-> codeRedEvents[s[i]]], result |-> <<>>])

(* DatabaseStorage.getAllCodeRedEventsForAudit: the SELECT of the packs of the
   next incident of the loop; after the last one, result.reverse() *)
SelectAuditPacks(c) ==
    /\ c \in DOMAIN inflight
    /\ inflight[c].op = "getAllCodeRedEventsForAudit"
    /\ UNCHANGED <<codeRedEvents, packs, currentCodeRedId, currentPackId>>
    /\ LET events == inflight[c].local.events
           result == Append(inflight[c].local.result,
                            WithPacks(events[Len(inflight[c].local.result) + 1]))
       IN IF Len(result) = Len(events)
          THEN Resume(c, 200, <<Reverse(result)>>)
          ELSE /\ inflight' = [inflight EXCEPT ![c].local.result = result]
               /\ UNCHANGED <<backend, client, stopped, arrival, tracking, userLocations, currentLocationId, now, calls, last>>

----------------------------------------------------------------------------
(* Location tracking: updateLocationSchema, the user_locations table, the
   routes POST /api/location/update and GET /api/location/estimate/:fromUserId *)

LocationUserTypes == {"runner", "lab", "clinician"}

(* latitude and longitude are z.string(): any string passes *)
updateLocationValid(body) == body.userId # "" /\ body.userType \in LocationUserTypes

RowsOf(userId) == {r \in DOMAIN userLocations : userLocations[r].userId = userId}

UserLocation(id, data, t) ==
    [id |-> id, userId |-> data.userId, userType |-> data.userType,
     latitude |-> data.latitude, longitude |-> data.longitude,
     accuracy |-> NULL, lastUpdated |-> t, isActive |-> TRUE]

(* MemStorage.updateUserLocation: the Map is keyed by userId *)
Mem_updateUserLocation(data, t) ==
    LET id == IF RowsOf(data.userId) # {} THEN CHOOSE r \in RowsOf(data.userId) : TRUE
              ELSE currentLocationId
    IN Overlay(userLocations, [r \in {id} |-> UserLocation(id, data, t)])

(* the INSERT of DatabaseStorage.updateUserLocation: user_id carries no unique
   constraint, the row is added whatever the table holds *)
Db_insertUserLocation(data, t) ==
    Overlay(userLocations, [r \in {currentLocationId} |-> UserLocation(currentLocationId, data, t)])

(* the UPDATE of DatabaseStorage.updateUserLocation: every row of the userId *)
Db_updateUserLocation(data, t) ==
    [r \in DOMAIN userLocations |->
        IF r \in RowsOf(data.userId) THEN UserLocation(r, data, t) ELSE userLocations[r]]

(* storage.updateUserLocation of the object literal: INSERT .. ON CONFLICT (userId) DO UPDATE *)
Storage_updateUserLocation(data) ==
    LET id == IF RowsOf(data.userId) # {} THEN CHOOSE r \in RowsOf(data.userId) : TRUE
              ELSE currentLocationId
    IN Overlay(userLocations, [r \in {id} |-> Overlay([id |-> id], data)])

(* JavaScript numbers: NaN, or a fixed-point value in units of 10^-7 *)
NaN == [nan |-> TRUE, v |-> 0]

Num(v) == [nan |-> FALSE, v |-> v]

parseFloat(s) == CASE s = "0" -> Num(0)
                   [] s = "0.0899322" -> Num(899322)
                   [] OTHER -> NaN

Minus(x, y) == IF x.nan \/ y.nan THEN NaN ELSE Num(x.v - y.v)

Abs(n) == IF n < 0 THEN -n ELSE n

(* degrees * (Math.PI / 180), with pi/180 = 0.0174533 *)
toRadians(degrees) ==
    IF degrees.nan THEN NaN ELSE Num(((degrees.v \div 100) * 174533) \div 100000)

(* a = sin^2(dLat/2) + cos(lat1) cos(lat2) sin^2(dLon/2) and
   c = 2 atan2(sqrt a, sqrt(1 - a)).  The numeric latitudes of the model are 0,
   where dLat = 0 and both cosines are 1: a = sin^2(dLon/2) and c = |dLon| *)
CentralAngle(lat1, lat2, dLat, dLon) ==
    IF lat1.nan \/ lat2.nan \/ dLat.nan \/ dLon.nan THEN NaN ELSE Num(Abs(dLon.v))

R == 6371

(* the estimate at 50 km/h instead of 5 km/h *)
estimatedMinutesAtFiftyKmh(distance) ==
    IF distance.nan THEN NaN ELSE Num(((distance.v \div 5) * 6 + 5000000) \div 10000000)

(* Math.round((distance / 5) * 60) *)
estimatedMinutes(distance) ==
    IF distance.nan THEN NaN ELSE Num(((distance.v \div 5) * 60 + 5000000) \div 10000000)

(* calculateArrivalEstimate of MemStorage and DatabaseStorage, for a stored row *)
calculateArrivalEstimate(userLocation, toLocation) ==
    LET dLat == toRadians(Minus(parseFloat(toLocation.lat), parseFloat(userLocation.latitude)))
        dLon == toRadians(Minus(parseFloat(toLocation.lng), parseFloat(userLocation.longitude)))
        c == CentralAngle(toRadians(parseFloat(userLocation.latitude)),
                          toRadians(parseFloat(toLocation.lat)), dLat, dLon)
        distance == IF c.nan THEN NaN ELSE Num(R * c.v)
    IN estimatedMinutes(distance)

(* storage.calculateArrivalEstimate of the object literal:
   Math.floor(Math.random() * 11) + 5 *)
RandomEstimates == {Num(n) : n \in 5..15}

(* res.json({ estimatedMinutes: estimate }): JSON has no NaN, it is written null *)
EstimateJson(estimate) == IF estimate = <<>> \/ estimate[1].nan THEN <<>> ELSE <<estimate[1].v>>

(* POST /api/location/update *)
PostLocation(body) ==
    /\ calls < MaxCalls
    /\ UNCHANGED <<codeRedEvents, packs, currentCodeRedId, currentPackId>>
    /\ IF ~updateLocationValid(body)
       THEN Complete("updateUserLocation", body, 400, <<>>)
       ELSE IF backend = "db"
       THEN Suspend("updateUserLocation", body, <<RowsOf(body.userId) # {}>>)
       ELSE /\ userLocations' = IF backend = "mem" THEN Mem_updateUserLocation(body, now)
                                ELSE Storage_updateUserLocation(body)
            /\ currentLocationId' = IF RowsOf(body.userId) # {} THEN currentLocationId
                                    ELSE currentLocationId + 1
            /\ calls' = calls + 1
            /\ \E r \in RowsOf(body.userId)' :
                  last' = Response(calls + 1, "updateUserLocation", body, 200, <<userLocations'[r]>>)
            /\ UNCHANGED <<backend, client, stopped, arrival, tracking, now, inflight>>

(* DatabaseStorage.updateUserLocation, second statement: UPDATE if the SELECT
   found a row, INSERT otherwise *)
UpdateUserLocation(c) ==
    /\ c \in DOMAIN inflight
    /\ inflight[c].op = "updateUserLocation"
    /\ UNCHANGED <<codeRedEvents, packs, currentCodeRedId, currentPackId>>
    /\ IF inflight[c].local[1]
       THEN /\ userLocations' = Db_updateUserLocation(inflight[c].arg, now)
            /\ UNCHANGED currentLocationId
            /\ \E r \in RowsOf(inflight[c].arg.userId) :
                  last' = Response(c, "updateUserLocation", inflight[c].arg, 200, <<userLocations'[r]>>)
       ELSE /\ userLocations' = Db_insertUserLocation(inflight[c].arg, now)
            /\ currentLocationId' = currentLocationId + 1
            /\ last' = Response(c, "updateUserLocation", inflight[c].arg, 200,
                                <<userLocations'[currentLocationId]>>)
    /\ inflight' = Remove(inflight, {c})
    /\ UNCHANGED <<backend, client, stopped, arrival, tracking, now, calls>>

(* what storage.calculateArrivalEstimate resolves to: <<>> is null.
   DatabaseStorage.getUserLocation takes the first row the SELECT returns *)
ArrivalEstimates(fromUserId, toLocation) ==
    IF backend = "object" THEN {<<n>> : n \in RandomEstimates}
    ELSE IF RowsOf(fromUserId) = {} THEN {<<>>}
    ELSE {<<calculateArrivalEstimate(userLocations[r], toLocation)>> : r \in RowsOf(fromUserId)}

(* GET /api/location/estimate/:fromUserId?lat=&lng= *)
GetEstimate(req) ==
    /\ calls < MaxCalls
    /\ UNCHANGED <<codeRedEvents, packs, currentCodeRedId, currentPackId>>
    /\ IF req.lat = "" \/ req.lng = ""
       THEN Complete("calculateArrivalEstimate", req, 400, <<>>)
       ELSE \E estimate \in ArrivalEstimates(req.fromUserId, [lat |-> req.lat, lng |-> req.lng]) :
               Complete("calculateArrivalEstimate", req, 200, EstimateJson(estimate))

----------------------------------------------------------------------------
(* The client: the pack list it polls (useQuery, refetchInterval) and the
   actions Emergency Reset, Mark Ready (set_ready) and Undo, which send their
   PATCH requests from that list.  A request of the client lands and is
   answered in one step; the requests of one action land in any order, and the
   requests of other clients land between them *)

(* what PATCH /api/packs/stage answers and writes (PatchStage) *)
PatchStageAnswer(body) ==
    IF ~updatePackStageValid(body)
    THEN [status |-> 400, res |-> <<>>, packs |-> packs]
    ELSE IF backend = "mem" /\ body.packId \notin DOMAIN packs
    THEN [status |-> 500, res |-> <<>>, packs |-> packs]
    ELSE IF backend = "db" /\ ~IsInteger(body.stage)
    THEN [status |-> 500, res |-> <<>>, packs |-> packs]
    ELSE IF body.packId \notin DOMAIN packs
    THEN [status |-> 200, res |-> <<>>, packs |-> packs]
    ELSE [status |-> 200,
          res |-> <<updatePackStage(packs[body.packId], body.stage, now)>>,
          packs |-> [packs EXCEPT ![body.packId] = updatePackStage(packs[body.packId], body.stage, now)]]

(* what PATCH /api/packs/estimate answers and writes (PatchEstimate) *)
PatchEstimateAnswer(body) ==
    IF ~updatePackEstimateValid(body)
    THEN [status |-> 400, res |-> <<>>, packs |-> packs]
    ELSE IF backend = "mem" /\ body.packId \notin DOMAIN packs
    THEN [status |-> 500, res |-> <<>>, packs |-> packs]
    ELSE IF body.packId \notin DOMAIN packs
    THEN [status |-> 200, res |-> <<>>, packs |-> packs]
    ELSE [status |-> 200,
          res |-> <<updatePackEstimate(packs[body.packId], body.estimatedMinutes, now)>>,
          packs |-> [packs EXCEPT ![body.packId] =
                        updatePackEstimate(packs[body.packId], body.estimatedMinutes, now)]]

(* apiRequest of the client: the handler runs, the client goes on as `next` *)
apiRequest(op, body, answer, next) ==
    /\ packs' = answer.packs
    /\ calls' = calls + 1
    /\ last' = Response(calls + 1, op, body, answer.status, answer.res)
    /\ client' = next
    /\ UNCHANGED <<backend, codeRedEvents, currentCodeRedId, currentPackId, userLocations,
                   currentLocationId, stopped, arrival, tracking, now, inflight>>

ClientOnly == UNCHANGED <<backend, codeRedEvents, packs, currentCodeRedId, currentPackId,
                          userLocations, currentLocationId, stopped, now, calls, inflight, last>>

(* the poll of the incident's packs: codeRed.packs *)
Poll(e) ==
    /\ client.action = "none"
    /\ client.outcome = "none"
    /\ client' = [client EXCEPT !.event = e, !.packs = [q \in PackIdsOf(e) |-> packs[q]]]
    /\ ClientOnly /\ UNCHANGED <<arrival, tracking>>

(* resetAllPacksMutation.mutate(): one PATCH per pack of codeRed.packs *)
ResetAllPacks ==
    /\ client.action = "none"
    /\ client.outcome = "none"
    /\ client.event # 0
    /\ client' = [client EXCEPT !.action = "reset", !.todo = DOMAIN client.packs]
    /\ ClientOnly /\ UNCHANGED <<arrival, tracking>>

(* one of the parallel requests lands *)
ResetRequest(q) ==
    /\ client.action = "reset"
    /\ q \in client.todo
    /\ LET body == [packId |-> q, stage |-> Whole(1)]
           answer == PatchStageAnswer(body)
       IN apiRequest("updatePackStage", body, answer,
                     [client EXCEPT !.todo = @ \ {q},
                                    !.failed = @ \/ answer.status # 200])

(* Promise.all settles: onSuccess (the toast 'Emergency Reset Complete') or onError *)
ResetSettles ==
    /\ client.action = "reset"
    /\ client.todo = {}
    /\ client' = [client EXCEPT !.action = "none",
                                !.outcome = IF client.failed THEN "error" ELSE "success"]
    /\ ClientOnly /\ UNCHANGED <<arrival, tracking>>

(* handleQuickAction(packId, "set_ready"): setEstimateMutation with
   estimatedMinutes null; its onSuccess sends the stage request *)
SetReady(q) ==
    /\ client.action = "none"
    /\ client.outcome = "none"
    /\ q \in DOMAIN client.packs
    /\ LET body == [packId |-> q, estimatedMinutes |-> <<>>]
           answer == PatchEstimateAnswer(body)
       IN apiRequest("updatePackEstimate", body, answer,
                     IF answer.status = 200
                     THEN [client EXCEPT !.action = "set_ready", !.packId = q]
                     ELSE [client EXCEPT !.outcome = "error"])

(* updateStageMutation.mutate({ packId, stage: 2 }) of set_ready *)
SetReadyStage ==
    /\ client.action = "set_ready"
    /\ LET body == [packId |-> client.packId, stage |-> Whole(2)]
           answer == PatchStageAnswer(body)
       IN apiRequest("updatePackStage", body, answer,
                     [client EXCEPT !.action = "none",
                                    !.outcome = IF answer.status = 200 THEN "success" ELSE "error"])

(* Undo: updateStageMutation.mutate(pack.currentStage - 1), pack from the polled list *)
UndoStage(q) ==
    /\ client.action = "none"
    /\ client.outcome = "none"
    /\ q \in DOMAIN client.packs
    /\ client.packs[q].currentStage.int > 1
    /\ LET body == [packId |-> q,
                    stage |-> [client.packs[q].currentStage EXCEPT !.int = @ - 1]]
           answer == PatchStageAnswer(body)
       IN apiRequest("updatePackStage", body, answer,
                     [client EXCEPT !.packId = q,
                                    !.outcome = IF answer.status = 200 THEN "success" ELSE "error"])

----------------------------------------------------------------------------
(* ArrivalEstimate and useArrivalEstimate.  One commit of the component
   (the render, the effects whose dependencies changed and the re-render
   their setState calls cause) is one step; a timer callback and the answer
   to a request are steps of their own *)

HOSPITAL_LOCATIONS ==
    [l \in {"Main Lab", "Satellite Lab", "ICU", "Emergency Department"} |->
        CASE l = "Main Lab" -> [lat |-> "51.5074", lng |-> "-0.1278"]
          [] l = "Satellite Lab" -> [lat |-> "51.5085", lng |-> "-0.1290"]
          [] l = "ICU" -> [lat |-> "51.5080", lng |-> "-0.1285"]
          [] l = "Emergency Department" -> [lat |-> "51.5070", lng |-> "-0.1275"]]

(* the effect that never clears the target: a stage outside 3 and 5 keeps
   the lab as the target *)
ArrivalTargetNeverCleared(stage, labLocation, clinicalLocation) ==
    IF stage = 5
    THEN [targetLocation |-> IF clinicalLocation # <<>> THEN clinicalLocation
                             ELSE <<HOSPITAL_LOCATIONS["ICU"]>>,
          estimateType |-> "clinical"]
    ELSE [targetLocation |-> IF labLocation # <<>> THEN labLocation
                             ELSE <<HOSPITAL_LOCATIONS["Main Lab"]>>,
          estimateType |-> "lab"]

(* useEffect(..., [stage, labLocation, clinicalLocation]): the target
   location and the estimate type of a stage *)
ArrivalTarget(stage, labLocation, clinicalLocation) ==
    IF stage = 3
    THEN [targetLocation |-> IF labLocation # <<>> THEN labLocation
                             ELSE <<HOSPITAL_LOCATIONS["Main Lab"]>>,
          estimateType |-> "lab"]
    ELSE IF stage = 5
    THEN [targetLocation |-> IF clinicalLocation # <<>> THEN clinicalLocation
                             ELSE <<HOSPITAL_LOCATIONS["ICU"]>>,
          estimateType |-> "clinical"]
    ELSE [targetLocation |-> <<>>, estimateType |-> "null"]

(* calculateEstimate up to its await: isCalculating, the GET request sent.
   `asked` flips with every request sent *)
calculateEstimate(a, toLocation) ==
    [a EXCEPT !.isCalculating = TRUE, !.pending = @ \cup {toLocation}, !.asked = 1 - @]

(* the effect of useArrivalEstimate(fromUserId, toLocation), run when
   fromUserId, toLocation?.lat or toLocation?.lng changed: the cleanup of the
   run before clears its timer *)
useArrivalEstimate(a, changed) ==
    IF ~changed THEN a
    ELSE IF a.props.runnerUserId = "" \/ a.targetLocation = <<>>
    THEN [a EXCEPT !.estimate = NULL, !.interval = <<>>]
    ELSE [calculateEstimate(a, a.targetLocation[1]) EXCEPT !.interval = a.targetLocation]

(* what the component renders: null, or the label of the estimate type
   with the badge text *)
ArrivalEstimateView(a) ==
    IF a.targetLocation = <<>> \/ a.estimateType = "null" \/ a.props.stage \notin {3, 5}
    THEN <<>>
    ELSE <<[label |-> IF a.estimateType = "lab" THEN "Arriving at lab"
                      ELSE "Arriving at clinical area",
            calculating |-> a.isCalculating \/ a.estimate = NULL,
            minutes |-> a.estimate]>>

ArrivalProps == [runnerUserId : {"runner1", ""}, stage : 1..6,
                 labLocation : {<<>>, <<HOSPITAL_LOCATIONS["Satellite Lab"]>>},
                 clinicalLocation : {<<>>, <<HOSPITAL_LOCATIONS["Emergency Department"]>>}]

(* the component is mounted, or rendered again with other props *)
ArrivalEstimate(props) ==
    /\ ~arrival.mounted \/ props # arrival.props
    /\ LET t == ArrivalTarget(props.stage, props.labLocation, props.clinicalLocation)
           a == [arrival EXCEPT !.mounted = TRUE, !.props = props,
                                !.targetLocation = t.targetLocation,
                                !.estimateType = t.estimateType]
       IN arrival' = useArrivalEstimate(a, \/ ~arrival.mounted
                                           \/ props.runnerUserId # arrival.props.runnerUserId
                                           \/ a.targetLocation # arrival.targetLocation)
    /\ ClientOnly /\ UNCHANGED <<client, tracking>>

(* setInterval(calculateEstimate, 30000) fires *)
EstimateInterval ==
    /\ arrival.interval # <<>>
    /\ arrival' = calculateEstimate(arrival, arrival.interval[1])
    /\ ClientOnly /\ UNCHANGED <<client, tracking>>

(* a request is answered: setEstimate(data.estimatedMinutes), or
   setEstimate(null) in the catch; setIsCalculating(false) either way *)
EstimateAnswer(toLocation, minutes) ==
    /\ toLocation \in arrival.pending
    /\ arrival' = [arrival EXCEPT !.estimate = minutes, !.isCalculating = FALSE,
                                  !.pending = @ \ {toLocation}]
    /\ ClientOnly /\ UNCHANGED <<client, tracking>>

----------------------------------------------------------------------------
(* useLocationTracking *)

(* the effect with enabled: startTracking().  The callback given to
   setInterval reads the `location` of the render the effect belongs to *)
startTracking ==
    /\ ~tracking.enabled
    /\ tracking' = [tracking EXCEPT !.enabled = TRUE, !.isTracking = TRUE,
                                    !.initial = TRUE, !.watchIdRef = TRUE,
                                    !.updateIntervalRef = <<tracking.location>>,
                                    !.event = "start", !.pushed = <<>>]
    /\ ClientOnly /\ UNCHANGED <<client, arrival>>

(* enabled turns false, or the component unmounts: stopTracking() *)
stopTracking ==
    /\ tracking.enabled
    /\ tracking' = [tracking EXCEPT !.enabled = FALSE, !.isTracking = FALSE,
                                    !.watchIdRef = FALSE, !.updateIntervalRef = <<>>,
                                    !.event = "stop", !.pushed = <<>>]
    /\ ClientOnly /\ UNCHANGED <<client, arrival>>

(* getCurrentPosition succeeds: setLocation, updateLocationOnServer, and the
   [location] effect sends the position again while isTracking *)
getCurrentPosition(locationData) ==
    /\ tracking.initial
    /\ tracking' = [tracking EXCEPT !.initial = FALSE, !.location = <<locationData>>,
                                    !.event = "position",
                                    !.pushed = IF tracking.isTracking
                                               THEN <<locationData, locationData>>
                                               ELSE <<locationData>>]
    /\ ClientOnly /\ UNCHANGED <<client, arrival>>

(* getCurrentPosition fails: setError, setIsTracking(false); the watch and
   the timer stay *)
getCurrentPositionError ==
    /\ tracking.initial
    /\ tracking' = [tracking EXCEPT !.initial = FALSE, !.isTracking = FALSE,
                                    !.event = "error", !.pushed = <<>>]
    /\ ClientOnly /\ UNCHANGED <<client, arrival>>

(* watchPosition reports a position: setLocation, then the [location]
   effect *)
watchPosition(locationData) ==
    /\ tracking.watchIdRef
    /\ tracking' = [tracking EXCEPT !.location = <<locationData>>, !.event = "watch",
                                    !.pushed = IF tracking.isTracking THEN <<locationData>>
                                               ELSE <<>>]
    /\ ClientOnly /\ UNCHANGED <<client, arrival>>

(* the timer fires: if (location) updateLocationOnServer(location), with
   the location the callback closed over *)
updateInterval ==
    /\ tracking.updateIntervalRef # <<>>
    /\ tracking' = [tracking EXCEPT !.event = "interval",
                                    !.pushed = tracking.updateIntervalRef[1]]
    /\ ClientOnly /\ UNCHANGED <<client, arrival>>

----------------------------------------------------------------------------
(* The requests clients send *)

(* an id that was never issued stands for every id that was never issued *)
EventIdInputs == {e \in Ids : e <= currentCodeRedId}

PackIdInputs == {p \in Ids : p <= currentPackId}

CodeRedBodies == {[activationTime |-> now, labType |-> "Main Lab", location |-> l,
                   patientMRN |-> "MRN1"] : l \in LocationInputs}

AssignRequests == {[id |-> e, userId |-> u, userType |-> t] :
                       e \in EventIdInputs, u \in UserIds, t \in UserTypes}
                  \cup {[id |-> 1, userId |-> "", userType |-> "runner"],
                        [id |-> 1, userId |-> "r1", userType |-> "lab"]}

LabRequests == {[id |-> e, labType |-> l] : e \in EventIdInputs, l \in LabTypes}

LocationBodies == {[codeRedId |-> e, newLocation |-> l] : e \in EventIdInputs, l \in LocationInputs}

ExtraColumns == [currentStage |-> Whole(4), estimatedReadyTime |-> 0, productArrivedTime |-> 0]

PackBodies == {[codeRedEventId |-> e, name |-> "Pack A", composition |-> "6 FFP"] : e \in EventIdInputs}
              \cup {Overlay(ExtraColumns, [codeRedEventId |-> e, name |-> "Pack A",
                                          composition |-> "6 FFP"]) : e \in EventIdInputs}
              \cup {[name |-> "Pack A", composition |-> "6 FFP"]}

StageBodies == {[packId |-> p, stage |-> s] : p \in PackIdInputs, s \in StageInputs}

EstimateBodies == {[packId |-> p, estimatedMinutes |-> m] :
                       p \in PackIdInputs, m \in {<<>>} \cup {<<x>> : x \in MinuteInputs}}

Init ==
    /\ backend \in {"mem", "db"}
    /\ codeRedEvents = <<>>
    /\ packs = <<>>
    /\ currentCodeRedId = 1
    /\ currentPackId = 1
    /\ userLocations = <<>>
    /\ currentLocationId = 1
    /\ stopped = <<>>
    /\ client = NoAction
    /\ arrival = Unmounted
    /\ tracking = NotTracking
    /\ now = 0
    /\ calls = 0
    /\ inflight = <<>>
    /\ last = Response(0, "none", <<>>, 200, <<>>)

Request ==
    \/ \E body \in CodeRedBodies : PostCodeRed(body)
    \/ \E id \in EventIdInputs : PostDeactivate(id)
    \/ \E id \in EventIdInputs : DeleteCodeRed(id)
    \/ \E body \in LocationBodies : PatchLocation(body)
    \/ \E body \in PackBodies : PostPack(body)
    \/ \E body \in StageBodies : PatchStage(body)
    \/ \E body \in EstimateBodies : PatchEstimate(body)
    \/ \E id \in PackIdInputs : DeletePack(id)

Continue ==
    \/ \E c \in DOMAIN inflight : DeleteCodeRedEvent(c)
    \/ \E c \in DOMAIN inflight : UpdateCodeRedLocation(c)

(* requests overlap freely *)
Next == Tick \/ Request \/ Continue

Spec == Init /\ [][Next]_vars

(* every request is answered before the next one is sent *)
NextSeq == Tick \/ (Idle /\ Request) \/ Continue

SpecSeq == Init /\ [][NextSeq]_vars

(* The incident registry: every handler, the pack handlers with one body per
   pack or incident id.  Requests overlap freely; the clock stays at its
   initial instant, and no property checked under this specification reads an
   instant. *)
RegistryPackBodies == {[codeRedEventId |-> e, name |-> "Pack A", composition |-> "6 FFP"] :
                          e \in EventIdInputs}

RegistryStageBodies == {[packId |-> p, stage |-> Whole(2)] : p \in PackIdInputs}

RegistryEstimateBodies == {[packId |-> p, estimatedMinutes |-> <<Whole(1)>>] : p \in PackIdInputs}

RegistryRequest ==
    \/ \E body \in CodeRedBodies : PostCodeRed(body)
    \/ \E req \in AssignRequests : PostAssign(req)
    \/ \E id \in EventIdInputs : GetCodeRed(id)
    \/ \E id \in EventIdInputs : PostDeactivate(id)
    \/ \E id \in EventIdInputs : DeleteCodeRed(id)
    \/ \E req \in LabRequests : PatchLab(req)
    \/ \E body \in LocationBodies : PatchLocation(body)
    \/ \E body \in RegistryPackBodies : PostPack(body)
    \/ \E body \in RegistryStageBodies : PatchStage(body)
    \/ \E body \in RegistryEstimateBodies : PatchEstimate(body)
    \/ \E id \in PackIdInputs : DeletePack(id)

RegistryContinue ==
    \/ \E c \in DOMAIN inflight : DeleteCodeRedEvent(c)
    \/ \E c \in DOMAIN inflight : UpdateCodeRedLocation(c)
    \/ \E c \in DOMAIN inflight : SelectCodeRedEvent(c)
    \/ \E c \in DOMAIN inflight : SelectPacks(c)

NextRegistry == RegistryRequest \/ RegistryContinue

SpecRegistry == Init /\ [][NextRegistry]_vars

(* The lookup of one incident under each of the three things `storage` can be;
   every request is answered before the next one is sent *)
InitWired ==
    /\ backend \in {"mem", "db", "object"}
    /\ codeRedEvents = <<>>
    /\ packs = <<>>
    /\ currentCodeRedId = 1
    /\ currentPackId = 1
    /\ userLocations = <<>>
    /\ currentLocationId = 1
    /\ stopped = <<>>
    /\ client = NoAction
    /\ arrival = Unmounted
    /\ tracking = NotTracking
    /\ now = 0
    /\ calls = 0
    /\ inflight = <<>>
    /\ last = Response(0, "none", <<>>, 200, <<>>)

WiredRequest ==
    \/ \E body \in CodeRedBodies : PostCodeRed(body)
    \/ \E id \in EventIdInputs : GetCodeRed(id)
    \/ \E id \in EventIdInputs : PostDeactivate(id)
    \/ \E id \in EventIdInputs : DeleteCodeRed(id)

WiredContinue ==
    \/ \E c \in DOMAIN inflight : DeleteCodeRedEvent(c)
    \/ \E c \in DOMAIN inflight : SelectPacks(c)

NextWired == Tick \/ (Idle /\ WiredRequest) \/ WiredContinue

SpecWired == InitWired /\ [][NextWired]_vars

(* Creation and deletion of incidents and packs, overlapping, with every
   required field of POST /api/code-red present or absent *)
CreateBodies ==
    {[activationTime |-> now, labType |-> "Main Lab", location |-> l, patientMRN |-> "MRN1"] :
        l \in LocationInputs}
    \cup {[activationTime |-> NULL, labType |-> "Main Lab", location |-> "ED", patientMRN |-> "MRN1"],
          [activationTime |-> now, labType |-> "", location |-> "ED", patientMRN |-> "MRN1"],
          [activationTime |-> now, labType |-> "Main Lab", location |-> "ED", patientMRN |-> ""],
          [activationTime |-> NULL, labType |-> "", location |-> "", patientMRN |-> ""]}

CreateRequest ==
    \/ \E body \in CreateBodies : PostCodeRed(body)
    \/ \E body \in RegistryPackBodies : PostPack(body)
    \/ \E id \in EventIdInputs : DeleteCodeRed(id)
    \/ \E id \in PackIdInputs : DeletePack(id)

CreateContinue == \E c \in DOMAIN inflight : DeleteCodeRedEvent(c)

NextCreate == Tick \/ CreateRequest \/ CreateContinue

SpecCreate == Init /\ [][NextCreate]_vars

(* Deletion of incidents with a database that may fail between the two
   statements of deleteCodeRedEvent, one request at a time *)
RepeatRequest ==
    \/ \E body \in CodeRedBodies : PostCodeRed(body)
    \/ \E body \in RegistryPackBodies : PostPack(body)
    \/ \E id \in EventIdInputs : DeleteCodeRed(id)

RepeatContinue ==
    \/ \E c \in DOMAIN inflight : DeleteCodeRedEvent(c)
    \/ \E c \in DOMAIN inflight : DeleteCodeRedEventFails(c)

NextRepeat == (Idle /\ RepeatRequest) \/ RepeatContinue

SpecRepeat == Init /\ [][NextRepeat]_vars

(* The audit listing among creations, deactivations and deletions, one request
   at a time, with the activationTime the client chooses *)
AuditBodies == {[activationTime |-> t, labType |-> "Main Lab", location |-> "ED",
                 patientMRN |-> "MRN1"] : t \in 0..MaxClock}

AuditRequest ==
    \/ \E body \in AuditBodies : PostCodeRed(body)
    \/ \E body \in RegistryPackBodies : PostPack(body)
    \/ \E id \in EventIdInputs : PostDeactivate(id)
    \/ \E id \in EventIdInputs : DeleteCodeRed(id)
    \/ GetAudit

AuditContinue ==
    \/ \E c \in DOMAIN inflight : DeleteCodeRedEvent(c)
    \/ \E c \in DOMAIN inflight : SelectAuditPacks(c)

NextAudit == (Idle /\ AuditRequest) \/ AuditContinue

SpecAudit == Init /\ [][NextAudit]_vars

(* One client among others *)
ClientStageBodies == {[packId |-> q, stage |-> Whole(t)] : q \in PackIdInputs, t \in 1..3}

(* what other clients send, up to MaxCalls requests *)
OtherClients ==
    \/ \E body \in RegistryPackBodies : PostPack(body)
    \/ \E body \in ClientStageBodies : PatchStage(body)
    \/ \E body \in RegistryEstimateBodies : PatchEstimate(body)
    \/ \E id \in PackIdInputs : DeletePack(id)

(* one action of the client, from a list it polled before *)
ClientAction ==
    \/ \E e \in EventIdInputs : Poll(e)
    \/ ResetAllPacks
    \/ \E q \in DOMAIN packs : ResetRequest(q)
    \/ ResetSettles
    \/ \E q \in DOMAIN packs : SetReady(q)
    \/ SetReadyStage
    \/ \E q \in DOMAIN packs : UndoStage(q)

NextClient == OtherClients \/ ClientAction

SpecClient == Init /\ [][NextClient]_vars

(* One ArrivalEstimate component *)
NextArrival ==
    \/ \E props \in ArrivalProps : ArrivalEstimate(props)
    \/ EstimateInterval
    \/ \E toLocation \in arrival.pending, minutes \in {NULL, 1, 7} :
          EstimateAnswer(toLocation, minutes)

SpecArrival == Init /\ [][NextArrival]_vars

(* One useLocationTracking hook *)
NextTracking ==
    \/ startTracking
    \/ stopTracking
    \/ \E lng \in {"0", "0.0899322"} :
          getCurrentPosition([latitude |-> "0", longitude |-> lng])
    \/ getCurrentPositionError
    \/ \E lng \in {"0", "0.0899322"} :
          watchPosition([latitude |-> "0", longitude |-> lng])
    \/ updateInterval

SpecTracking == Init /\ [][NextTracking]_vars

(* The location routes alone, overlapping, on the two IStorage classes
   (SpecLocations) and on every `storage` (SpecLocationsWired).  The clock
   stands still: these specifications serve properties that read no instant *)
Latitudes == {"0", "north"}

Longitudes == {"0", "0.0899322"}

UpdateLocationBodies ==
    {[userId |-> u, userType |-> "runner", latitude |-> lat, longitude |-> lng] :
        u \in UserIds, lat \in Latitudes, lng \in Longitudes}
    \cup {[userId |-> "", userType |-> "runner", latitude |-> "0", longitude |-> "0"]}

EstimateRequests ==
    {[fromUserId |-> u, lat |-> "0", lng |-> lng] : u \in UserIds, lng \in Longitudes}
    \cup {[fromUserId |-> "r1", lat |-> "", lng |-> "0"]}

LocationRequest ==
    \/ \E body \in UpdateLocationBodies : PostLocation(body)
    \/ \E req \in EstimateRequests : GetEstimate(req)

LocationContinue == \E c \in DOMAIN inflight : UpdateUserLocation(c)

NextLocations == LocationRequest \/ LocationContinue

SpecLocations == Init /\ [][NextLocations]_vars

SpecLocationsWired == InitWired /\ [][NextLocations]_vars

----------------------------------------------------------------------------
(* Properties *)

Completes(op) == last'.call # last.call /\ last'.op = op

IntegerStage(stage) == {s \in 1..6 : stage = Whole(s)}

StageOf(pack) == IntegerStage(pack.currentStage)

(* C1: for an existing pack at a stage c in 1..6 and an integer target t in
   1..6, in any order of c and t, setStage answers 200 and leaves
   currentStage = t with the timestamp slot of t equal to the instant of the
   call. *)
C1_SetStageAnyTarget ==
    [][Completes("updatePackStage") =>
         \A t \in IntegerStage(last'.arg.stage) :
            (/\ last'.arg.packId \in DOMAIN packs
             /\ StageOf(packs[last'.arg.packId]) # {})
            => /\ last'.status = 200
               /\ last'.arg.packId \in DOMAIN packs'
               /\ packs'[last'.arg.packId].currentStage = Whole(t)
               /\ packs'[last'.arg.packId][SlotOf[t]] = now
               /\ last'.res = <<packs'[last'.arg.packId]>>]_vars

(* a pack that was at stage 6 has been moved back to stage 2 *)
C1_Witness ==
    /\ last.op = "updatePackStage"
    /\ last.status = 200
    /\ last.arg.stage = Whole(2)
    /\ last.arg.packId \in DOMAIN packs
    /\ packs[last.arg.packId].currentStage = Whole(2)
    /\ packs[last.arg.packId].productArrivedTime # NULL

(* C2: every stored pack has currentStage equal to one of the integers 1..6
   and the timestamp slot of its currentStage is non-null. *)
C2_StageInRangeAndStamped ==
    \A p \in DOMAIN packs :
        \E s \in 1..6 : /\ packs[p].currentStage = Whole(s)
                        /\ packs[p][SlotOf[s]] # NULL

(* C3: a setStage request whose stage is outside 1..6 is answered 400 and
   leaves every pack and every incident as it was. *)
C3_StageOutOfRangeRejected ==
    [][(/\ Completes("updatePackStage")
        /\ ~(NumGe(last'.arg.stage, 1) /\ NumLe(last'.arg.stage, 6)))
       => /\ last'.status = 400
          /\ UNCHANGED store]_vars

(* stage 7 was refused for a pack that exists *)
C3_Witness ==
    /\ last.op = "updatePackStage"
    /\ last.arg.stage = Whole(7)
    /\ last.arg.packId \in DOMAIN packs
    /\ last.status = 400

(* C4: setStage and setEstimate with a valid body and a pack id that is not in
   the store never answer 200 and leave the store unchanged, on both backends. *)
C4_MissingPackFails ==
    [][(/\ \/ Completes("updatePackStage") /\ updatePackStageValid(last'.arg)
           \/ Completes("updatePackEstimate") /\ updatePackEstimateValid(last'.arg)
        /\ last'.arg.packId \notin DOMAIN packs)
       => /\ last'.status # 200
          /\ UNCHANGED store]_vars

(* C5: the pack createPack returns and stores has currentStage = 1,
   orderReceivedTime = the instant of the call, the other five stage
   timestamps null and estimatedReadyTime null, whatever the body carried. *)
C5_CreatedPackInitialState ==
    [][(Completes("createPack") /\ last'.status = 200)
       => /\ Len(last'.res) = 1
          /\ LET pack == last'.res[1]
             IN /\ pack.currentStage = Whole(1)
                /\ pack.orderReceivedTime = now
                /\ \A s \in 2..6 : pack[SlotOf[s]] = NULL
                /\ pack.estimatedReadyTime = NULL
                /\ pack.id \notin DOMAIN packs
                /\ packs' = Overlay(packs, [p \in {pack.id} |-> pack])]_vars

(* a pack was created from a body that carried currentStage and timestamps *)
C5_Witness ==
    /\ last.op = "createPack"
    /\ last.status = 200
    /\ "currentStage" \in DOMAIN last.arg
    /\ "estimatedReadyTime" \in DOMAIN last.arg
    /\ last.res[1].id \in DOMAIN packs

(* C6: createPack with a valid body whose eventId names no incident does not
   answer 200 and adds no pack. *)
C6_CreatePackNeedsParent ==
    [][(/\ Completes("createPack")
        /\ insertPackValid(last'.arg)
        /\ last'.arg.codeRedEventId \notin DOMAIN codeRedEvents)
       => /\ last'.status # 200
          /\ packs' = packs]_vars

InListing(listing, e) == \E i \in DOMAIN listing : listing[i].id = e

(* C7: at the completion of deleteEvent(e), getById(e) is null, neither
   listActive nor listForAudit contains e, and no pack with parent e is
   retrievable by pack id or by parent id. *)
C7_DeleteEventCascades ==
    [][\A e \in Ids :
         (Completes("deleteCodeRedEvent") /\ last'.arg.id = e)
         => /\ getCodeRedEventById(e)' = <<>>
            /\ ~InListing(getActiveCodeRedEvents', e)
            /\ ~InListing(getAllCodeRedEventsForAudit', e)
            /\ getPacksByCodeRedEventId(e)' = <<>>
            /\ \A p \in Ids : \A i \in DOMAIN getPackById(p)' :
                  getPackById(p)'[i].codeRedEventId # e]_vars

(* an incident that had been created, and a pack with it, are both gone after
   the two-statement delete of the database backend *)
C7_Witness ==
    /\ backend = "db"
    /\ last.op = "deleteCodeRedEvent"
    /\ last.arg.id < currentCodeRedId
    /\ currentPackId > 1
    /\ last.arg.id \notin DOMAIN codeRedEvents
    /\ packs = <<>>

(* C8: every stored pack's parent incident id refers to an incident that
   exists. *)
C8_StrongOwnership ==
    \A p \in DOMAIN packs : packs[p].codeRedEventId \in DOMAIN codeRedEvents

IsPrefix(s, t) == Len(s) <= Len(t) /\ \A i \in 1..Len(s) : s[i] = t[i]

(* C9: a successful updateLocation(e, L2) on an incident whose location is L1
   appends exactly one entry, that entry records L1 -> L2, and location becomes
   L2; and in every step an incident's location changes only together with
   such an append. *)
C9_UpdateLocationAppendsOne ==
    [][/\ (/\ Completes("updateCodeRedLocation")
           /\ last'.status = 200
           /\ last'.arg.codeRedId \in DOMAIN codeRedEvents)
          => LET e == last'.arg.codeRedId
             IN /\ e \in DOMAIN codeRedEvents'
                /\ Len(codeRedEvents'[e].locationHistory)
                     = Len(codeRedEvents[e].locationHistory) + 1
                /\ IsPrefix(codeRedEvents[e].locationHistory, codeRedEvents'[e].locationHistory)
                /\ LET entry == codeRedEvents'[e].locationHistory[Len(codeRedEvents'[e].locationHistory)]
                   IN /\ entry[2] = codeRedEvents[e].location
                      /\ entry[3] = last'.arg.newLocation
                /\ codeRedEvents'[e].location = last'.arg.newLocation
       /\ \A e \in DOMAIN codeRedEvents \cap DOMAIN codeRedEvents' :
            \/ /\ codeRedEvents'[e].location = codeRedEvents[e].location
               /\ codeRedEvents'[e].locationHistory = codeRedEvents[e].locationHistory
            \/ /\ Completes("updateCodeRedLocation")
               /\ last'.arg.codeRedId = e
               /\ Len(codeRedEvents'[e].locationHistory)
                    = Len(codeRedEvents[e].locationHistory) + 1]_vars

(* an incident created in ED was moved to ICU on the database backend *)
C9_Witness ==
    /\ backend = "db"
    /\ last.op = "updateCodeRedLocation"
    /\ last.status = 200
    /\ last.arg.codeRedId \in DOMAIN codeRedEvents
    /\ codeRedEvents[last.arg.codeRedId].originalLocation = "ED"
    /\ codeRedEvents[last.arg.codeRedId].location = "ICU"
    /\ Len(codeRedEvents[last.arg.codeRedId].locationHistory) = 1

(* C10: for an existing incident, its locationHistory at a later state has its
   history at every earlier state as a prefix, also when updateLocation calls
   overlap. *)
C10_HistoryAppendOnly ==
    [][\A e \in DOMAIN codeRedEvents \cap DOMAIN codeRedEvents' :
         IsPrefix(codeRedEvents[e].locationHistory, codeRedEvents'[e].locationHistory)]_vars

(* C11: updateLocation with a non-empty location and an id for which no
   incident exists when the call is made answers 500 (the storage call throws
   `not found`), and no incident or pack changes and no incident id is
   issued. *)
C11_UpdateLocationMissingIncident ==
    [][(/\ Completes("updateCodeRedLocation")
        /\ calls' = calls + 1
        /\ last'.arg.newLocation # ""
        /\ last'.arg.codeRedId \notin DOMAIN codeRedEvents)
       => /\ last'.status = 500
          /\ UNCHANGED <<store, currentCodeRedId>>]_vars

(* a move to ICU was refused for an id that names no incident, while another
   incident is stored *)
C11_Witness ==
    /\ last.op = "updateCodeRedLocation"
    /\ last.status = 500
    /\ last.arg.newLocation = "ICU"
    /\ last.arg.codeRedId \notin DOMAIN codeRedEvents
    /\ codeRedEvents # <<>>

(* C12: the incident createEvent stores has originalLocation equal to the
   location of the request, and no step (updateLocation, assign, deactivate,
   lab switch or any other handler) changes the originalLocation of an
   incident that is in the store before and after it. *)
C12_OriginalLocationImmutable ==
    [][/\ (Completes("createCodeRedEvent") /\ last'.status = 200)
          => /\ last'.res[1].id \in DOMAIN codeRedEvents'
             /\ last'.res[1].id \notin DOMAIN codeRedEvents
             /\ codeRedEvents'[last'.res[1].id].originalLocation = last'.arg.location
       /\ \A e \in DOMAIN codeRedEvents \cap DOMAIN codeRedEvents' :
            codeRedEvents'[e].originalLocation = codeRedEvents[e].originalLocation]_vars

(* an incident created in ED has been moved to ICU and switched to the
   satellite lab, and is still recorded as raised in ED *)
C12_Witness ==
    \E e \in DOMAIN codeRedEvents :
        /\ codeRedEvents[e].originalLocation = "ED"
        /\ codeRedEvents[e].location = "ICU"
        /\ codeRedEvents[e].labType = "Satellite Lab"
        /\ Len(codeRedEvents[e].locationHistory) = 1

IsActive(event) == IF backend = "object" THEN event.active ELSE event.isActive

(* C13: getById(id) answers with an incident exactly when an incident with
   that id is stored and active; for a deactivated, deleted or never-created
   id it answers null, whatever `storage` is. *)
C13_GetByIdOnlyActive ==
    [][\A e \in Ids :
         (Completes("getCodeRedEventById") /\ last'.arg.id = e)
         => (last'.res # <<>> <=> (e \in DOMAIN codeRedEvents /\ IsActive(codeRedEvents[e])))]_vars

(* C14: deactivate(id) on a stored incident, active or already inactive,
   answers 200 and leaves isActive = false and deactivationTime = the instant
   of this call; so a repeated deactivate re-stamps deactivationTime. *)
C14_DeactivateStampsEveryCall ==
    [][\A e \in Ids :
         (/\ Completes("deactivateCodeRedEvent")
          /\ last'.arg.id = e
          /\ e \in DOMAIN codeRedEvents)
         => /\ last'.status = 200
            /\ e \in DOMAIN codeRedEvents'
            /\ ~codeRedEvents'[e].isActive
            /\ codeRedEvents'[e].deactivationTime = now]_vars

(* an incident raised at instant 0 carries the stamp of a deactivate answered
   at instant 1 *)
C14_Witness ==
    /\ last.op = "deactivateCodeRedEvent"
    /\ last.arg.id \in DOMAIN codeRedEvents
    /\ ~codeRedEvents[last.arg.id].isActive
    /\ codeRedEvents[last.arg.id].activationTime = 0
    /\ codeRedEvents[last.arg.id].deactivationTime = 1
    /\ now = 1

(* C15: deactivationTime is null while the incident is active, and once it
   is non-null no step changes it, a repeated deactivate included. *)
C15_DeactivationTimeSetOnce ==
    [][\A e \in DOMAIN codeRedEvents \cap DOMAIN codeRedEvents' :
         /\ codeRedEvents'[e].isActive => codeRedEvents'[e].deactivationTime = NULL
         /\ codeRedEvents[e].deactivationTime # NULL
              => codeRedEvents'[e].deactivationTime = codeRedEvents[e].deactivationTime]_vars

(* C16: deactivate(e) on a stored incident e changes isActive and
   deactivationTime of e and nothing else: every pack and every other incident
   is as before, the other fields of e are as before, and listForAudit
   afterwards contains e with exactly the packs it had. *)
C16_DeactivateFrame ==
    [][\A e \in Ids :
         (/\ Completes("deactivateCodeRedEvent")
          /\ last'.arg.id = e
          /\ e \in DOMAIN codeRedEvents)
         => /\ packs' = packs
            /\ DOMAIN codeRedEvents' = DOMAIN codeRedEvents
            /\ \A o \in DOMAIN codeRedEvents \ {e} : codeRedEvents'[o] = codeRedEvents[o]
            /\ codeRedEvents'[e] = [codeRedEvents[e] EXCEPT
                                       !.isActive = codeRedEvents'[e].isActive,
                                       !.deactivationTime = codeRedEvents'[e].deactivationTime]
            /\ \E i \in DOMAIN getAllCodeRedEventsForAudit' :
                  /\ getAllCodeRedEventsForAudit'[i].id = e
                  /\ getAllCodeRedEventsForAudit'[i].packs = getPacksByCodeRedEventId(e)]_vars

(* an incident that has a pack has been deactivated, and the pack is stored *)
C16_Witness ==
    /\ last.op = "deactivateCodeRedEvent"
    /\ last.arg.id \in DOMAIN codeRedEvents
    /\ ~codeRedEvents[last.arg.id].isActive
    /\ PackIdsOf(last.arg.id) # {}

(* C17: an incident that has been deactivated is never removed afterwards,
   and neither is any of its packs. *)
C17_DeactivatedNeverDeleted ==
    [][\A e \in DOMAIN codeRedEvents :
         ~codeRedEvents[e].isActive
         => /\ e \in DOMAIN codeRedEvents'
            /\ PackIdsOf(e) \subseteq DOMAIN packs']_vars

(* the step in which a request is made, and the request *)
Starts(op) ==
    /\ calls' = calls + 1
    /\ IF calls' \in DOMAIN inflight'
       THEN inflight'[calls'].op = op
       ELSE last'.call = calls' /\ last'.op = op

Started == IF calls' \in DOMAIN inflight' THEN inflight'[calls'].arg ELSE last'.arg

AssignmentOf(userType) ==
    IF userType = "runner" THEN "assignedRunnerId" ELSE "assignedClinicianId"

(* C18: assign(e, role, u) on a stored incident e overwrites the assignment
   field of that role with u and changes nothing else: the other role's
   assignment, every other field of e, every other incident and every pack are
   as before; so a second assign of the same role replaces the first, and
   repeating an assign changes nothing. *)
C18_AssignOverwritesOneRole ==
    [][\A e \in Ids :
         (/\ Starts("assignUserToCodeRed")
          /\ Started.id = e
          /\ Started.userId \in UserIds
          /\ Started.userType \in UserTypes
          /\ e \in DOMAIN codeRedEvents)
         => /\ codeRedEvents' = [codeRedEvents EXCEPT
                                   ![e][AssignmentOf(Started.userType)] = Started.userId]
            /\ packs' = packs
            /\ codeRedEvents[e][AssignmentOf(Started.userType)] = Started.userId
                 => codeRedEvents' = codeRedEvents]_vars

(* runner r2 was assigned to an incident whose clinician is r1 *)
C18_Witness ==
    /\ last.op = "assignUserToCodeRed"
    /\ last.status = 200
    /\ last.arg.userType = "runner"
    /\ last.arg.userId = "r2"
    /\ last.arg.id \in DOMAIN codeRedEvents
    /\ codeRedEvents[last.arg.id].assignedRunnerId = "r2"
    /\ codeRedEvents[last.arg.id].assignedClinicianId = "r1"

(* C19: assign (with a valid body) and deactivate for an id that names no
   incident change no incident and no pack and issue no id, and both are
   answered 200. *)
C19_MissingIncidentNoOp ==
    [][/\ (/\ Starts("assignUserToCodeRed")
           /\ Started.userId \in UserIds
           /\ Started.userType \in UserTypes
           /\ Started.id \notin DOMAIN codeRedEvents)
          => UNCHANGED <<store, currentCodeRedId, currentPackId>>
       /\ (/\ Completes("assignUserToCodeRed")
           /\ last'.arg.userId \in UserIds
           /\ last'.arg.userType \in UserTypes)
          => last'.status = 200
       /\ (/\ Completes("deactivateCodeRedEvent")
           /\ last'.arg.id \notin DOMAIN codeRedEvents)
          => /\ last'.status = 200
             /\ UNCHANGED <<store, currentCodeRedId, currentPackId>>]_vars

(* an assign for an id that names no incident was answered 200 with null,
   while an incident and a pack are stored *)
C19_Witness ==
    /\ last.op = "assignUserToCodeRed"
    /\ last.status = 200
    /\ last.res = <<>>
    /\ last.arg.userId = "r1"
    /\ last.arg.id \notin DOMAIN codeRedEvents
    /\ codeRedEvents # <<>>
    /\ packs # <<>>

(* C20: for a stored pack, setEstimate(p, null) answers 200 and leaves
   estimatedReadyTime null; setEstimate(p, m) with an integer m in 1..120
   answers 200 and leaves estimatedReadyTime = the instant of the call + m;
   setEstimate(p, m) with m outside 1..120 does not answer 200 and leaves the
   packs as they were. *)
C20_SetEstimate ==
    [][(Completes("updatePackEstimate") /\ last'.arg.packId \in DOMAIN packs)
       => LET p == last'.arg.packId
              m == last'.arg.estimatedMinutes
          IN IF m = <<>>
             THEN /\ last'.status = 200
                  /\ p \in DOMAIN packs'
                  /\ packs'[p].estimatedReadyTime = NULL
             ELSE IF IsInteger(m[1]) /\ m[1].int \in 1..120
             THEN /\ last'.status = 200
                  /\ p \in DOMAIN packs'
                  /\ packs'[p].estimatedReadyTime = now + m[1].int
             ELSE /\ last'.status # 200
                  /\ packs' = packs]_vars

(* at instant 1 a pack was given an estimate of 120 minutes *)
C20_Witness ==
    /\ last.op = "updatePackEstimate"
    /\ last.status = 200
    /\ last.arg.estimatedMinutes = <<Whole(120)>>
    /\ last.arg.packId \in DOMAIN packs
    /\ now = 1
    /\ packs[last.arg.packId].estimatedReadyTime = 121

StageFields == {"currentStage"} \cup {SlotOf[s] : s \in 1..6}

(* C21: setEstimate with a valid body on a stored pack is answered 200 at
   whatever stage the pack is, and no setEstimate, accepted or refused, changes
   currentStage or a stage timestamp of any pack, any field of another pack,
   or any incident. *)
C21_SetEstimateFrame ==
    [][Completes("updatePackEstimate")
       => /\ (updatePackEstimateValid(last'.arg) /\ last'.arg.packId \in DOMAIN packs)
               => last'.status = 200
          /\ DOMAIN packs' = DOMAIN packs
          /\ \A q \in DOMAIN packs :
                /\ \A k \in StageFields : packs'[q][k] = packs[q][k]
                /\ q # last'.arg.packId => packs'[q] = packs[q]
          /\ codeRedEvents' = codeRedEvents]_vars

(* a pack that has arrived (stage 6) was given an estimate *)
C21_Witness ==
    /\ last.op = "updatePackEstimate"
    /\ last.status = 200
    /\ last.arg.packId \in DOMAIN packs
    /\ packs[last.arg.packId].currentStage = Whole(6)
    /\ packs[last.arg.packId].estimatedReadyTime # NULL

(* C22: an accepted setStage(p, t) changes currentStage and the timestamp
   slot of t of pack p and nothing else: the other stage timestamps, the
   estimate and the other columns of p, every other pack and every incident
   keep their values; so the slot of a stage that was left by moving back
   stays populated. *)
C22_SetStageFrame ==
    [][(/\ Completes("updatePackStage")
        /\ last'.status = 200
        /\ last'.arg.packId \in DOMAIN packs)
       => LET p == last'.arg.packId
              written == {"currentStage"} \cup {SlotOf[t] : t \in IntegerStage(last'.arg.stage)}
          IN /\ DOMAIN packs' = DOMAIN packs
             /\ DOMAIN packs'[p] = DOMAIN packs[p]
             /\ \A k \in DOMAIN packs[p] \ written : packs'[p][k] = packs[p][k]
             /\ \A q \in DOMAIN packs \ {p} : packs'[q] = packs[q]
             /\ codeRedEvents' = codeRedEvents]_vars

(* a pack that entered stage 2 at instant 0 was moved back to stage 1 at
   instant 1 and still carries the stamp of stage 2 *)
C22_Witness ==
    /\ last.op = "updatePackStage"
    /\ last.status = 200
    /\ last.arg.stage = Whole(1)
    /\ last.arg.packId \in DOMAIN packs
    /\ packs[last.arg.packId].currentStage = Whole(1)
    /\ packs[last.arg.packId].orderReceivedTime = 1
    /\ packs[last.arg.packId].readyForCollectionTime = 0

(* C23: the location registry holds at most one record per participant id in
   every reachable state, also when two upsertLocation calls for the same,
   previously unseen participant overlap on the database backend *)
C23_OneRecordPerParticipant == \A u \in UserIds : Cardinality(RowsOf(u)) <= 1

(* C24: estimateArrival answers null if and only if the participant has no
   stored location: with a stored location (which is never deleted) every
   call answers a number, without one every call answers null *)
C24_NullIffNoLocation ==
    [][(Completes("calculateArrivalEstimate") /\ last'.status = 200)
       => (last'.res = <<>> <=> RowsOf(last'.arg.fromUserId) = {})]_vars

(* C25: estimateArrival is a pure function of the stored coordinates and the
   target: a call that follows a call with the same participant and target,
   with no write to the registry in between (every write completes a request
   and so replaces `last`), answers the same value, and a call changes no
   stored location, pack or incident *)
C25_EstimateIsPure ==
    [][(Completes("calculateArrivalEstimate") /\ last'.status = 200)
       => /\ (last.op = "calculateArrivalEstimate" /\ last.status = 200 /\ last.arg = last'.arg)
                => last'.res = last.res
          /\ UNCHANGED <<userLocations, codeRedEvents, packs>>]_vars

(* round(d / 5 * 60) for the coordinates of the model: d is 0 km between equal
   points and 10.0000 km between (0, 0) and (0, 0.0899322) (6371 km times
   0.0899322 degrees in radians), in either direction; a stored coordinate that
   is no number makes d, and the rounded value, NaN, which JSON writes as null *)
ExpectedMinutes(userLocation, req) ==
    IF userLocation.latitude \notin {"0"} \/ userLocation.longitude \notin {"0", "0.0899322"}
    THEN <<>>
    ELSE IF userLocation.longitude = req.lng THEN <<0>> ELSE <<120>>

(* C26: for a participant with a stored location estimateArrival answers
   round(d / 5 * 60), d the great-circle distance in km from the stored point to
   the target: 120 minutes from (0, 0) to (0, 0.0899322) *)
C26_EstimateFormula ==
    [][(Completes("calculateArrivalEstimate") /\ last'.status = 200
           /\ RowsOf(last'.arg.fromUserId) # {})
       => \E r \in RowsOf(last'.arg.fromUserId) :
             last'.res = ExpectedMinutes(userLocations[r], last'.arg)]_vars

C26_Witness ==
    /\ last.op = "calculateArrivalEstimate" /\ last.status = 200
    /\ last.arg.lat = "0" /\ last.arg.lng = "0.0899322"
    /\ \E r \in RowsOf(last.arg.fromUserId) :
          userLocations[r].latitude = "0" /\ userLocations[r].longitude = "0"
    /\ last.res = <<120>>

RequiredPresent(body) ==
    body.activationTime # NULL /\ body.labType # "" /\ body.location # "" /\ body.patientMRN # ""

(* C27: createEvent with non-empty labType, location and patientMRN (and an
   activationTime) stores one incident with originalLocation = location, empty
   locationHistory, isActive, no deactivationTime and no assignment; a request
   with a required field empty or missing answers a validation error (400) and
   stores nothing *)
C27_CreateEvent ==
    [][Completes("createCodeRedEvent")
       => IF RequiredPresent(last'.arg)
          THEN /\ last'.status = 200
               /\ \E e \in DOMAIN codeRedEvents' \ DOMAIN codeRedEvents :
                     /\ DOMAIN codeRedEvents' = DOMAIN codeRedEvents \cup {e}
                     /\ \A f \in DOMAIN codeRedEvents : codeRedEvents'[f] = codeRedEvents[f]
                     /\ codeRedEvents'[e].labType = last'.arg.labType
                     /\ codeRedEvents'[e].location = last'.arg.location
                     /\ codeRedEvents'[e].patientMRN = last'.arg.patientMRN
                     /\ codeRedEvents'[e].originalLocation = last'.arg.location
                     /\ codeRedEvents'[e].locationHistory = <<>>
                     /\ codeRedEvents'[e].isActive
                     /\ codeRedEvents'[e].deactivationTime = NULL
                     /\ codeRedEvents'[e].assignedRunnerId = NoUser
                     /\ codeRedEvents'[e].assignedClinicianId = NoUser
          ELSE /\ last'.status = 400
               /\ codeRedEvents' = codeRedEvents]_vars

C27_Witness ==
    /\ last.op = "createCodeRedEvent" /\ last.status = 400
    /\ last.arg.labType = "" /\ last.arg.location = "ED"
    /\ \E e \in DOMAIN codeRedEvents : codeRedEvents[e].originalLocation = "ED"

(* C28: ids are fresh.  Every id ever given out lies below the counter: the
   counters never go down, also on deletion, and a new incident (pack) gets an
   id at or above the counter's value before the step and below its value after
   it, so it differs from every id given before, deleted or not *)
C28_FreshIds ==
    [][/\ currentCodeRedId' >= currentCodeRedId
       /\ currentPackId' >= currentPackId
       /\ \A e \in DOMAIN codeRedEvents' \ DOMAIN codeRedEvents :
             e >= currentCodeRedId /\ e < currentCodeRedId' /\ codeRedEvents'[e].id = e
       /\ \A q \in DOMAIN packs' \ DOMAIN packs :
             q >= currentPackId /\ q < currentPackId' /\ packs'[q].id = q]_vars

C28_Witness ==
    /\ last.op = "createCodeRedEvent" /\ last.status = 200
    /\ DOMAIN codeRedEvents = {2}
    /\ currentCodeRedId = 3

(* C29: listForAudit answers every incident that exists, active or
   deactivated, each exactly once, as stored and joined with exactly the packs
   whose parent it is, in non-increasing (hence monotonic) activationTime *)
C29_AuditListing ==
    [][Completes("getAllCodeRedEventsForAudit")
       => LET listing == last'.res[1]
          IN /\ last'.status = 200
             /\ Len(listing) = Cardinality(DOMAIN codeRedEvents)
             /\ \A e \in DOMAIN codeRedEvents :
                   \E i \in DOMAIN listing :
                      /\ listing[i].id = e
                      /\ Restrict(listing[i], DOMAIN codeRedEvents[e]) = codeRedEvents[e]
                      /\ Len(listing[i].packs) = Cardinality(PackIdsOf(e))
                      /\ {listing[i].packs[k] : k \in DOMAIN listing[i].packs}
                            = {packs[q] : q \in PackIdsOf(e)}
             /\ \A i, j \in DOMAIN listing :
                   i < j => listing[i].activationTime >= listing[j].activationTime]_vars

C29_Witness ==
    /\ last.op = "getAllCodeRedEventsForAudit"
    /\ Len(last.res[1]) = 2
    /\ last.res[1][1].id = 2 /\ last.res[1][1].activationTime = 1
    /\ last.res[1][2].id = 1 /\ last.res[1][2].activationTime = 0

(* C30: when two setStage calls on the same existing pack, with integer
   targets s1 and s2 in 1..6, both complete, neither is answered an error and
   the pack is left at the target of the write that reached storage last (one
   of s1 and s2), with the timestamp slot of that stage set; the slot of the
   earlier write stays.  No request completes between the two calls, which
   each write in one step *)
C30_ConcurrentSetStage ==
    [][(/\ Completes("updatePackStage")
        /\ last.op = "updatePackStage"
        /\ last'.arg.packId = last.arg.packId
        /\ last.arg.packId \in DOMAIN packs
        /\ IntegerStage(last.arg.stage) # {} /\ IntegerStage(last'.arg.stage) # {})
       => LET q == last.arg.packId
          IN /\ last.status = 200 /\ last'.status = 200
             /\ packs[q].currentStage = last.arg.stage
             /\ packs'[q].currentStage = last'.arg.stage
             /\ \A s \in IntegerStage(last'.arg.stage) : packs'[q][SlotOf[s]] = now
             /\ \A s \in IntegerStage(last.arg.stage) : packs'[q][SlotOf[s]] # NULL]_vars

(* setStage(4) and then setStage(2) have completed on one pack, at different instants *)
C30_Witness ==
    /\ last.op = "updatePackStage" /\ last.status = 200
    /\ last.arg.stage = Whole(2)
    /\ last.arg.packId \in DOMAIN packs
    /\ packs[last.arg.packId].currentStage = Whole(2)
    /\ packs[last.arg.packId].orderCollectedTime = 0
    /\ packs[last.arg.packId].readyForCollectionTime = 1

(* C31: deleteEvent is repeat-safe.  A deleteEvent(e) that is answered 200,
   the repeat of one that stopped after its first step included, leaves
   neither e nor a pack of e in the store; every step of a deleteEvent(e)
   leaves the other incidents and the packs of other incidents as they were,
   so on an id that is already gone it changes nothing, and it is answered 200 *)
C31_DeleteRepeatSafe ==
    [][/\ \A e \in Ids :
             (Completes("deleteCodeRedEvent") /\ last'.arg.id = e /\ last'.status = 200)
             => e \notin DOMAIN codeRedEvents' /\ PackIdsOf(e)' = {}
       /\ \A e \in Ids :
             ((Starts("deleteCodeRedEvent") /\ Started.id = e)
                \/ (Completes("deleteCodeRedEvent") /\ last'.arg.id = e))
             => /\ Restrict(codeRedEvents', DOMAIN codeRedEvents' \ {e})
                     = Restrict(codeRedEvents, DOMAIN codeRedEvents \ {e})
                /\ DOMAIN codeRedEvents' \subseteq DOMAIN codeRedEvents
                /\ Restrict(packs', DOMAIN packs' \ PackIdsOf(e)) = Restrict(packs, DOMAIN packs \ PackIdsOf(e))
                /\ DOMAIN packs' \subseteq DOMAIN packs
                /\ (e \notin DOMAIN codeRedEvents /\ PackIdsOf(e) = {} /\ Completes("deleteCodeRedEvent")
                        /\ stopped' = stopped)
                      => last'.status = 200]_vars

(* the repeat of a deletion that had stopped after removing the packs has
   removed the incident *)
C31_Witness ==
    /\ last.op = "deleteCodeRedEvent" /\ last.status = 200
    /\ \E i \in DOMAIN stopped : stopped[i] = last.arg.id
    /\ last.arg.id < currentCodeRedId
    /\ last.arg.id \notin DOMAIN codeRedEvents
    /\ PackIdsOf(last.arg.id) = {}

(* what the handler answers on MemStorage, as a function of the request and
   the store: 400 for a body the schema rejects, 500 when MemStorage throws
   (the pack or the incident is not in its Map), 200 otherwise *)
MemStorageStatus(op, arg) ==
    CASE op = "createCodeRedEvent" -> IF createCodeRedValid(arg) THEN 200 ELSE 400
      [] op = "createPack" -> IF insertPackValid(arg) THEN 200 ELSE 400
      [] op = "updateCodeRedLocation" ->
            IF ~updateCodeRedLocationValid(arg) THEN 400
            ELSE IF arg.codeRedId \notin DOMAIN codeRedEvents THEN 500 ELSE 200
      [] op = "updatePackStage" ->
            IF ~updatePackStageValid(arg) THEN 400
            ELSE IF arg.packId \notin DOMAIN packs THEN 500 ELSE 200
      [] op = "updatePackEstimate" ->
            IF ~updatePackEstimateValid(arg) THEN 400
            ELSE IF arg.packId \notin DOMAIN packs THEN 500 ELSE 200
      [] OTHER -> 200

(* C32: the two backends implement one contract.  With requests one at a time
   from empty stores, every call is answered on either backend with the result
   or the kind of error MemStorage gives for that request on that store (the
   stores are equal as long as the answers were) *)
C32_BackendsAgree ==
    [][last'.call # last.call => last'.status = MemStorageStatus(last'.op, last'.arg)]_vars

(* C34: when Emergency Reset reports success, every pack of the incident in
   the store is at stage 1, whatever other clients created or changed since
   the resetting client loaded its pack list *)
C34_ResetResetsAll ==
    [][(client.action = "reset" /\ client'.outcome = "success")
       => \A q \in PackIdsOf(client.event)' : packs'[q].currentStage = Whole(1)]_vars

(* C35: when set_ready has finished successfully the pack is at stage 2 with
   no estimate, whatever other clients sent between its two requests; and
   when its stage request fails the pack is not left with the estimate cleared *)
C35_SetReady ==
    [][/\ (client.action = "set_ready" /\ client'.outcome = "success")
          => /\ client.packId \in DOMAIN packs'
             /\ packs'[client.packId].currentStage = Whole(2)
             /\ packs'[client.packId].estimatedReadyTime = NULL
       /\ (client.action = "set_ready" /\ client'.outcome = "error")
          => (client.packId \in DOMAIN packs' => packs'[client.packId].estimatedReadyTime # NULL)]_vars

(* the step in which the client's Undo request is applied *)
UndoApplied ==
    /\ client.action = "none" /\ client'.action = "none"
    /\ client'.outcome # client.outcome
    /\ last'.call # last.call /\ last'.op = "updatePackStage"

(* C36: an Undo moves the pack back by exactly one stage from the stage the
   store holds when the request is applied, also when the client's polled
   list is stale *)
C36_UndoOneStageBack ==
    [][(UndoApplied /\ last'.arg.packId \in DOMAIN packs)
       => /\ last'.arg.packId \in DOMAIN packs'
          /\ packs'[last'.arg.packId].currentStage =
                IF packs[last'.arg.packId].currentStage.int > 1
                THEN [packs[last'.arg.packId].currentStage EXCEPT !.int = @ - 1]
                ELSE packs[last'.arg.packId].currentStage]_vars

(* C33: deletePack on a pack of the store removes exactly that pack and
   leaves every other pack and every incident as they were; deletePack on
   an id that is not in the store is answered with an error *)
C33_DeletePack ==
    [][Completes("deletePack")
       => IF last'.arg.id \in DOMAIN packs
          THEN /\ last'.status = 200
               /\ packs' = Remove(packs, {last'.arg.id})
               /\ codeRedEvents' = codeRedEvents
          ELSE /\ last'.status >= 400
               /\ packs' = packs
               /\ codeRedEvents' = codeRedEvents]_vars

(* C37: the arrival estimate's target is the lab location at stage 3, the
   clinical location at stage 5 and cleared at stages 1, 2, 4 and 6, where
   nothing is shown; an estimate is requested only at stage 3 or 5 and for
   the target of that stage; after every change of the stage the target
   shown is the one of the new stage *)
C37_ArrivalTarget ==
    [][arrival'.mounted
       => /\ arrival'.props.stage = 3
             => /\ arrival'.targetLocation \in {arrival'.props.labLocation,
                                                <<HOSPITAL_LOCATIONS["Main Lab"]>>} \ {<<>>}
                /\ ArrivalEstimateView(arrival') # <<>>
                /\ ArrivalEstimateView(arrival')[1].label = "Arriving at lab"
          /\ arrival'.props.stage = 5
             => /\ arrival'.targetLocation \in {arrival'.props.clinicalLocation,
                                                <<HOSPITAL_LOCATIONS["ICU"]>>} \ {<<>>}
                /\ ArrivalEstimateView(arrival') # <<>>
                /\ ArrivalEstimateView(arrival')[1].label = "Arriving at clinical area"
          /\ arrival'.props.stage \notin {3, 5}
             => /\ arrival'.targetLocation = <<>>
                /\ ArrivalEstimateView(arrival') = <<>>
          /\ arrival'.asked # arrival.asked
             => /\ arrival'.props.stage \in {3, 5}
                /\ arrival'.targetLocation # <<>>
                /\ arrival'.pending \ arrival.pending \subseteq {arrival'.targetLocation[1]}
                /\ arrival'.targetLocation[1] \in arrival'.pending]_vars

(* the stage changed from 3 to 5 and the estimate is requested for the
   clinical location while the request for the lab is still unanswered *)
C37_Witness ==
    /\ arrival.props.stage = 5
    /\ arrival.targetLocation = <<HOSPITAL_LOCATIONS["ICU"]>>
    /\ arrival.pending = {HOSPITAL_LOCATIONS["Main Lab"], HOSPITAL_LOCATIONS["ICU"]}
    /\ ArrivalEstimateView(arrival) # <<>>

(* C38: while tracking is on and a position is known, every firing of the
   update timer sends the latest position to the server, also when the
   position did not change; once tracking is stopped no callback sends a
   position *)
C38_PeriodicPush ==
    /\ (tracking.event = "interval" /\ tracking.isTracking /\ tracking.location # <<>>)
          => tracking.pushed = tracking.location
    /\ (~tracking.enabled /\ tracking.event # "none") => tracking.pushed = <<>>

(* C39: in every reachable state, also when updateLocation calls overlap, the
   locationHistory of every incident is a connected chain that ends at its
   location: the first entry starts at originalLocation, every later entry
   starts where the entry before it ends, and location is where the last
   entry ends (originalLocation when the history is empty) *)
C39_HistoryIsChain ==
    \A e \in DOMAIN codeRedEvents :
        LET h == codeRedEvents[e].locationHistory
        IN IF h = <<>>
           THEN codeRedEvents[e].location = codeRedEvents[e].originalLocation
           ELSE /\ h[1][2] = codeRedEvents[e].originalLocation
                /\ \A i \in 2..Len(h) : h[i][2] = h[i - 1][3]
                /\ codeRedEvents[e].location = h[Len(h)][3]

(* an updateLocation has moved the incident while another one, which read the
   incident before that move, has still to write *)
C39_Witness ==
    \E c \in DOMAIN inflight :
        /\ inflight[c].op = "updateCodeRedLocation"
        /\ inflight[c].arg.codeRedId \in DOMAIN codeRedEvents
        /\ inflight[c].local.event.locationHistory = <<>>
        /\ Len(codeRedEvents[inflight[c].arg.codeRedId].locationHistory) = 1
        /\ codeRedEvents[inflight[c].arg.codeRedId].location # inflight[c].local.event.location

(* C40: deactivation is irreversible: an incident with isActive = false is
   inactive after every step that keeps it in the store, whatever the
   operation (assign, updateLocation, lab switch, createPack, setStage,
   deactivate) and however the calls overlap, so that it is in no listing of
   active incidents and getById answers null for it *)
C40_DeactivationIrreversible ==
    [][\A e \in DOMAIN codeRedEvents :
         ~codeRedEvents[e].isActive
         => /\ e \in DOMAIN codeRedEvents' => ~codeRedEvents'[e].isActive
            /\ e \notin ActiveIds'
            /\ \A i \in DOMAIN getActiveCodeRedEvents' : getActiveCodeRedEvents'[i].id # e
            /\ getCodeRedEventById(e)' = <<>>]_vars

(* an updateLocation has moved an incident that was deactivated before, and
   the incident is still inactive *)
C40_Witness ==
    /\ last.op = "updateCodeRedLocation"
    /\ last.status = 200
    /\ last.arg.codeRedId \in DOMAIN codeRedEvents
    /\ ~codeRedEvents[last.arg.codeRedId].isActive
    /\ codeRedEvents[last.arg.codeRedId].location = last.arg.newLocation
    /\ Len(codeRedEvents[last.arg.codeRedId].locationHistory) = 1
    /\ getCodeRedEventById(last.arg.codeRedId) = <<>>

====
